---- MODULE Spec2Model ----
(***************************************************************************)
(* Local-first storage and synchronisation engine of the content capture   *)
(* extension (src/src/services/storage.ts): the IndexedDB Local Store of   *)
(* each device, the chrome.storage.sync replica (chunk records and the     *)
(* single index record) and the asynchronous operations of StorageService. *)
(* Every await of an operation is one step of a process, so operations of  *)
(* one device and of several devices interleave at their awaits.           *)
(***************************************************************************)
EXTENDS Integers, Sequences, FiniteSets, TLC

(***************************************************************************)
(* Bounds of the model.                                                    *)
(***************************************************************************)
NumProcs == 3
NumDevices == 2
MaxOps == 4
MaxFails == 1
(* Operations in flight at once under Spec. *)
Concurrency == 2
(* Operations started on a Local Store that holds entries already. *)
MaxCalls == 2
(* Latest createdAt of an entry and latest reading of the clock. *)
MaxTime == 2

(* storage.ts:14, scaled: a chunk holds at most this many tokens of the    *)
(* serialised entry.                                                       *)
MAX_CHUNK_SIZE == 3

(* The chunk sizes the codec is checked with. *)
MaxChunkSize == 4

Procs == 1..NumProcs
Devices == 1..NumDevices
Ids == {"a", "b"}
ContentTokens == {"x"}

(* Entry contents of the inputs: they serialise to 3, 4 and 7 tokens, that *)
(* is to 1, 2 and 3 chunks.                                                *)
Contents == {<<>>, <<"x">>, <<"x", "x", "x", "x">>}

Entries == [id : Ids, content : Contents]

(* The entries saved under Spec: one and two chunks. *)
SmallEntries == {e \in Entries : Len(e.content) <= 1}

NoEntry == [id |-> "none", content |-> <<>>]
NoChunk == [id |-> "none", chunkIndex |-> 0, totalChunks |-> 0, data |-> <<>>]
ParseError == [id |-> "SyntaxError", content |-> <<>>]

SYNC_STORAGE_PREFIX == "entry_"

Min(x, y) == IF x <= y THEN x ELSE y

(***************************************************************************)
(* Sync Codec.                                                             *)
(***************************************************************************)
(* JSON.stringify(entry): an opening brace, the id, the content tokens, a  *)
(* closing brace.                                                          *)
JSONstringify(entry) == <<"{", entry.id>> \o entry.content \o <<"}">>

(* JSON.parse(text): the entry the text encodes, or a SyntaxError when the *)
(* text is not the serialisation of an entry.                              *)
JSONparse(s) ==
  IF /\ Len(s) >= 3
     /\ s[1] = "{"
     /\ s[Len(s)] = "}"
     /\ s[2] \in Ids
     /\ \A k \in 3..(Len(s) - 1) : s[k] \in ContentTokens
  THEN [id |-> s[2], content |-> SubSeq(s, 3, Len(s) - 1)]
  ELSE ParseError

(* Math.ceil(n / d) *)
CeilDiv(n, d) == (n + d - 1) \div d

(* splitEntryIntoChunks with its chunk size as a parameter. *)
splitEntryWith(entry, size) ==
  LET entryJson == JSONstringify(entry)
      totalChunks == CeilDiv(Len(entryJson), size)
  IN [k \in 1..totalChunks |->
        LET i == k - 1
            start == i * size
            end == Min(start + size, Len(entryJson))
        IN [id |-> entry.id, chunkIndex |-> i, totalChunks |-> totalChunks,
            data |-> SubSeq(entryJson, start + 1, end)]]

splitEntryIntoChunks(entry) == splitEntryWith(entry, MAX_CHUNK_SIZE)

(* chunk => `${SYNC_STORAGE_PREFIX}${entry.id}_${chunk.chunkIndex}` *)
ChunkKey(id, i) == <<SYNC_STORAGE_PREFIX, id, i>>

ChunkKeysOf(chunks) == [k \in 1..Len(chunks) |-> ChunkKey(chunks[k].id, chunks[k].chunkIndex)]

RECURSIVE InsertByIndex(_, _)
InsertByIndex(c, sorted) ==
  IF sorted = <<>> THEN <<c>>
  ELSE IF c.chunkIndex < Head(sorted).chunkIndex THEN <<c>> \o sorted
  ELSE <<Head(sorted)>> \o InsertByIndex(c, Tail(sorted))

SortByIndex_None(chunks) == chunks

(* chunks.sort((a, b) => a.chunkIndex - b.chunkIndex) *)
RECURSIVE SortByIndex(_)
SortByIndex(chunks) ==
  IF chunks = <<>> THEN <<>>
  ELSE InsertByIndex(chunks[Len(chunks)], SortByIndex(SubSeq(chunks, 1, Len(chunks) - 1)))

RECURSIVE JoinData(_)
JoinData(chunks) ==
  IF chunks = <<>> THEN <<>> ELSE Head(chunks).data \o JoinData(Tail(chunks))

ChunkCountMatches_Always(sorted) == TRUE

(* chunks.length !== chunks[0].totalChunks, negated *)
ChunkCountMatches(sorted) == Len(sorted) = sorted[1].totalChunks

(* NoEntry stands for null, ParseError for the SyntaxError JSON.parse throws. *)
reconstructEntryFromChunks(chunks) ==
  IF Len(chunks) = 0 THEN NoEntry
  ELSE LET sorted == SortByIndex(chunks)
       IN IF ~ChunkCountMatches(sorted) THEN NoEntry
          ELSE JSONparse(JoinData(sorted))


(***************************************************************************)
(* Remote Index: the single record under SYNC_STORAGE_INDEX_KEY, an object *)
(* whose keys keep their insertion order; a sequence of [id, chunkKeys].   *)
(***************************************************************************)
IndexIds(index) == {index[k].id : k \in 1..Len(index)}

IndexHas(index, id) == id \in IndexIds(index)

IndexPos(index, id) == CHOOSE k \in 1..Len(index) : index[k].id = id

(* index[entry.id] = { chunkKeys, metadata } *)
IndexPut(index, id, chunkKeys) ==
  LET rec == [id |-> id, chunkKeys |-> chunkKeys]
  IN IF IndexHas(index, id)
     THEN [index EXCEPT ![IndexPos(index, id)] = rec]
     ELSE Append(index, rec)

(* delete index[entryId] *)
IndexDelete(index, id) ==
  LET keep == {k \in 1..Len(index) : index[k].id # id}
      F[k \in 0..Len(index)] ==
        IF k = 0 THEN <<>>
        ELSE IF k \in keep THEN Append(F[k - 1], index[k]) ELSE F[k - 1]
  IN F[Len(index)]

RECURSIVE AllChunkKeys(_)
AllChunkKeys(index) ==
  IF index = <<>> THEN {}
  ELSE {Head(index).chunkKeys[k] : k \in 1..Len(Head(index).chunkKeys)}
         \cup AllChunkKeys(Tail(index))

KeySet(chunkKeys) == {chunkKeys[k] : k \in 1..Len(chunkKeys)}

(* The chunk keys the inputs can produce. *)
ChunkKeySpace == UNION {KeySet(ChunkKeysOf(splitEntryIntoChunks(e))) : e \in Entries}

VARIABLES
  local,       \* local[d][id]: the entries store of device d's IndexedDB
  db,          \* db[d]: this.db of device d is set
  syncChunks,  \* chrome.storage.sync: the chunk record under each chunk key
  syncIndex,   \* chrome.storage.sync: the index record
  pc,          \* pc[p]: the await at which operation p stands
  op,          \* op[p]: the operation process p runs
  dev,         \* dev[p]: the device it runs on
  arg,         \* arg[p]: its entry (saveEntry) or the entry id (deleteEntry)
  lidx,        \* lidx[p]: its local copy of the index
  pos,         \* pos[p]: position of a pull in the entry ids of its index
  got,         \* got[p]: the entry a pull reconstructed and is about to put
  result,      \* result[p]: how the operation's promise settled
  pullEnd,     \* pullEnd[p]: how the pull of p ended
  flags,       \* flags[p]: history of the operation, for the properties
  lastPushed,  \* lastPushed[id]: the entry of the last push that wrote id's index record
  opsLeft,     \* operations and events the environment may still start
  todo,        \* or the calls the environment issues, in this order
  failsLeft,   \* failures of remote calls that may still happen
  createdAt,   \* createdAt[d][id]: the createdAt of the entry under id (the store's createdAt index)
  settings,    \* the 'settings' record of the config store (SpecConfig: the record under each key)
  locals,      \* locals[p]: the local variables of the function p runs
  responses,   \* responses[p]: the results the message handler p passed to sendResponse
  recentEntriesCache,  \* background.ts:705
  cacheTimestamp,      \* background.ts:706
  now          \* Date.now()

(* The state of the background script and of the store's createdAt index,  *)
(* which the operations of the replica neither read nor write.             *)
ext == <<createdAt, settings, locals, responses, recentEntriesCache, cacheTimestamp, now>>

vars == <<local, db, syncChunks, syncIndex, pc, op, dev, arg, lidx, pos, got,
          result, pullEnd, flags, lastPushed, opsLeft, todo, failsLeft, ext>>

remote == <<syncChunks, syncIndex>>
budget == <<opsLeft, todo>>
frame == <<op, dev, arg>>

NoArg == NoEntry

NoLocals == [none |-> TRUE]

(* background.ts:707, scaled: the cache is valid for this many ticks. *)
CACHE_DURATION == 2

(* settings.omnibox?.maxSuggestions || 8, background.ts:777, scaled to the *)
(* number of ids.                                                          *)
MaxSuggestions == 2

(* normalized.length < 50, part_011:124, scaled to the texts of the inputs *)
SHORT_TEXT == 14

(* storage.autoCleanup is off by default (background.ts:660-664). *)
DefaultSettings == [autoCleanup |-> FALSE, maxEntries |-> 0]

InitExtWith(se) ==
  /\ createdAt = [d \in Devices |-> [id \in Ids |-> 0]]
  /\ settings = se
  /\ locals = [p \in Procs |-> NoLocals]
  /\ responses = [p \in Procs |-> <<>>]
  /\ recentEntriesCache = <<>>
  /\ cacheTimestamp = 0
  /\ now = CACHE_DURATION

InitExt == InitExtWith(DefaultSettings)

Init ==
  /\ InitExt
  /\ local = [d \in Devices |-> [id \in Ids |-> NoEntry]]
  /\ db = [d \in Devices |-> FALSE]
  /\ syncChunks = [k \in ChunkKeySpace |-> NoChunk]
  /\ syncIndex = <<>>
  /\ pc = [p \in Procs |-> IF p <= Concurrency THEN "idle" ELSE "off"]
  /\ op = [p \in Procs |-> "none"]
  /\ dev = [p \in Procs |-> 1]
  /\ arg = [p \in Procs |-> NoArg]
  /\ lidx = [p \in Procs |-> <<>>]
  /\ pos = [p \in Procs |-> 0]
  /\ got = [p \in Procs |-> NoEntry]
  /\ result = [p \in Procs |-> "none"]
  /\ pullEnd = [p \in Procs |-> "none"]
  /\ flags = [p \in Procs |-> {}]
  /\ lastPushed = [id \in Ids |-> NoEntry]
  /\ opsLeft = MaxOps
  /\ todo = <<>>
  /\ failsLeft = MaxFails

Active(p) == pc[p] \notin {"idle", "done", "off"}
Quiescent == \A p \in Procs : ~Active(p)
NoneDone == \A p \in Procs : pc[p] # "done"

(* Operations are started on the lowest free processes. *)
Idle == {q \in Procs : pc[q] = "idle"}
LowestFree(ps) == /\ ps \subseteq Idle
                  /\ \A q \in Idle \ ps : \A r \in ps : r < q

(* Flags of the operations once the operations of ps start: an operation   *)
(* that runs while another one runs is flagged "overlap".                  *)
Overlapped(ps, fs) ==
  [q \in Procs |-> IF q \in ps THEN fs \cup (IF \E r \in Procs \ {q} : Active(r) \/ r \in ps
                                              THEN {"overlap"} ELSE {})
                   ELSE IF Active(q) /\ ps # {} THEN flags[q] \cup {"overlap"} ELSE flags[q]]

BeginAll(ps, o, d, a, at, fs) ==
  /\ NoneDone
  /\ LowestFree(ps)
  /\ IF todo # <<>>
     THEN /\ Head(todo).call = [op |-> o, dev |-> d, arg |-> a]
          /\ Head(todo).quiet => \A q \in Procs : ~Active(q)
          /\ todo' = Tail(todo)
          /\ UNCHANGED opsLeft
     ELSE /\ opsLeft > 0
          /\ opsLeft' = opsLeft - 1
          /\ UNCHANGED todo
  /\ pc' = [q \in Procs |-> IF q \in ps THEN at ELSE pc[q]]
  /\ op' = [q \in Procs |-> IF q \in ps THEN o ELSE op[q]]
  /\ dev' = [q \in Procs |-> IF q \in ps THEN d ELSE dev[q]]
  /\ arg' = [q \in Procs |-> IF q \in ps THEN a ELSE arg[q]]
  /\ flags' = Overlapped(ps, fs)
  /\ UNCHANGED <<lidx, pos, got, result, pullEnd, lastPushed, failsLeft>>

Begin(p, o, d, a, at) == BeginAll({p}, o, d, a, at, {})

(* Devices and entry ids are interchangeable: the environment brings them  *)
(* into use in order.                                                      *)
DeviceInOrder(d) == \A c \in Devices : c < d => db[c]
UsedIds == {id \in Ids : \/ \E d \in Devices : local[d][id] # NoEntry
                         \/ \E k \in DOMAIN syncChunks : syncChunks[k].id = id
                         \/ \E p \in Procs : arg[p].id = id}
IdInOrder(id) == id = "a" \/ "a" \in UsedIds

(* A remote call of p returns. *)
At(p, o, at) == NoneDone /\ op[p] = o /\ pc[p] = at
Goto(p, at) == pc' = [pc EXCEPT ![p] = at]
Flag(p, fs) == flags' = [flags EXCEPT ![p] = @ \cup fs]
Fails == failsLeft > 0 /\ failsLeft' = failsLeft - 1

(* The operation's promise settles. *)
Settle(p, res) ==
  /\ pc' = [pc EXCEPT ![p] = "done"]
  /\ result' = [result EXCEPT ![p] = res]

(* The settled operation leaves the process. *)
Retire(p) ==
  /\ pc[p] = "done"
  /\ pc' = [pc EXCEPT ![p] = "idle"]
  /\ op' = [op EXCEPT ![p] = "none"]
  /\ dev' = [dev EXCEPT ![p] = 1]
  /\ arg' = [arg EXCEPT ![p] = NoArg]
  /\ lidx' = [lidx EXCEPT ![p] = <<>>]
  /\ pos' = [pos EXCEPT ![p] = 0]
  /\ got' = [got EXCEPT ![p] = NoEntry]
  /\ result' = [result EXCEPT ![p] = "none"]
  /\ pullEnd' = [pullEnd EXCEPT ![p] = "none"]
  /\ flags' = [flags EXCEPT ![p] = {}]
  /\ UNCHANGED <<local, db, remote, lastPushed, budget, failsLeft>>
  /\ UNCHANGED ext


(***************************************************************************)
(* saveEntry (storage.ts:238-273) and saveEntryToSyncStorage (276-338).    *)
(***************************************************************************)
(* The try/catch around saveEntryToSyncStorage (storage.ts:255-265): a     *)
(* remote error is logged and the save goes on.                            *)
SaveCatchesSyncError_Off == FALSE
SaveCatchesSyncError == TRUE

(* enforceStorageLimits (storage.ts:340-373) with autoCleanup off, the     *)
(* default: it reads the settings, deletes nothing and never throws; then  *)
(* saveEntry returns.                                                      *)
SaveReturns(p) ==
  /\ Settle(p, "ok")
  /\ UNCHANGED <<local, db, frame, lidx, pos, got, pullEnd, lastPushed, budget>>

(* An error thrown inside the remote half of saveEntry. *)
SaveSyncError(p, cause) ==
  /\ Flag(p, {"awaited", "remoteErr", cause})
  /\ IF SaveCatchesSyncError
     THEN SaveReturns(p)
     ELSE /\ Settle(p, "rejected")
          /\ UNCHANGED <<local, db, frame, lidx, pos, got, pullEnd, lastPushed, budget>>

(* store.put(entry), storage.ts:242-249. The database is open: a device   *)
(* runs init before its first save (background.ts:8, storage.ts:239).     *)
SaveEntry(p, d, entry) ==
  /\ db[d]
  /\ IdInOrder(entry.id)
  /\ Begin(p, "save", d, entry, "push_chunks")
  /\ local' = [local EXCEPT ![d][entry.id] = entry]
  /\ UNCHANGED <<db, remote>>
  /\ UNCHANGED ext

(* checkSyncStorageAvailable (storage.ts:253) says available; then        *)
(* getBytesInUse and chrome.storage.sync.set(dataToSave), storage.ts:280-305 *)
PushChunks(p) ==
  /\ At(p, "save", "push_chunks")
  /\ LET chunks == splitEntryIntoChunks(arg[p])
         chunkKeys == ChunkKeysOf(chunks)
     IN syncChunks' = [k \in ChunkKeySpace |->
                         IF \E j \in 1..Len(chunks) : chunkKeys[j] = k
                         THEN chunks[CHOOSE j \in 1..Len(chunks) : chunkKeys[j] = k]
                         ELSE syncChunks[k]]
  /\ Goto(p, "push_verify")
  /\ Flag(p, {"awaited"})
  /\ UNCHANGED <<local, db, syncIndex, frame, lidx, pos, got, result, pullEnd,
                 lastPushed, budget, failsLeft>>
  /\ UNCHANGED ext

(* The replica is unavailable (storage.ts:266-268), or getBytesInUse or    *)
(* set throws (the quota is exceeded).                                     *)
PushChunksFail(p) ==
  /\ At(p, "save", "push_chunks")
  /\ Fails
  /\ SaveSyncError(p, "chunkWrite")
  /\ UNCHANGED remote
  /\ UNCHANGED ext

AllChunksSaved_Always(chunkKeys, store) == TRUE

(* savedChunks.length !== chunkKeys.length, storage.ts:309-310 *)
AllChunksSaved(chunkKeys, store) ==
  Cardinality({k \in KeySet(chunkKeys) : store[k] # NoChunk}) = Len(chunkKeys)

(* chrome.storage.sync.get(chunkKeys) and the check, storage.ts:308-313 *)
PushVerify(p) ==
  /\ At(p, "save", "push_verify")
  /\ LET chunkKeys == ChunkKeysOf(splitEntryIntoChunks(arg[p]))
     IN IF AllChunksSaved(chunkKeys, syncChunks)
        THEN /\ Goto(p, "push_index_read")
             /\ Flag(p, IF \A k \in KeySet(chunkKeys) : syncChunks[k] # NoChunk
                        THEN {"verified"} ELSE {})
             /\ UNCHANGED <<result, failsLeft>>
        ELSE /\ SaveSyncError(p, "chunkMismatch")
             /\ UNCHANGED failsLeft
  /\ UNCHANGED <<local, db, remote, frame, lidx, pos, got, pullEnd, lastPushed, budget>>
  /\ UNCHANGED ext

PushVerifyFail(p) ==
  /\ At(p, "save", "push_verify")
  /\ Fails
  /\ SaveSyncError(p, "chunkRead")
  /\ UNCHANGED remote
  /\ UNCHANGED ext

(* getEntryIndex (storage.ts:162-169) and index[entry.id] = ... (317-329) *)
PushIndexRead(p) ==
  /\ At(p, "save", "push_index_read")
  /\ lidx' = [lidx EXCEPT ![p] =
                IndexPut(syncIndex, arg[p].id, ChunkKeysOf(splitEntryIntoChunks(arg[p])))]
  /\ Goto(p, "push_index_write")
  /\ UNCHANGED <<local, db, remote, frame, pos, got, result, pullEnd, flags,
                 lastPushed, budget, failsLeft>>
  /\ UNCHANGED ext

(* getEntryIndex catches the error of the read and returns {}. *)
PushIndexReadFail(p) ==
  /\ At(p, "save", "push_index_read")
  /\ Fails
  /\ lidx' = [lidx EXCEPT ![p] =
                IndexPut(<<>>, arg[p].id, ChunkKeysOf(splitEntryIntoChunks(arg[p])))]
  /\ Goto(p, "push_index_write")
  /\ Flag(p, {"remoteErr"})
  /\ UNCHANGED <<local, db, remote, frame, pos, got, result, pullEnd,
                 lastPushed, budget>>
  /\ UNCHANGED ext

(* updateEntryIndex(index), storage.ts:330 *)
PushIndexWrite(p) ==
  /\ At(p, "save", "push_index_write")
  /\ syncIndex' = lidx[p]
  /\ lastPushed' = [lastPushed EXCEPT ![arg[p].id] = arg[p]]
  /\ Goto(p, "push_index_verify")
  /\ Flag(p, {"wroteIndex"})
  /\ UNCHANGED <<local, db, syncChunks, frame, lidx, pos, got, result, pullEnd,
                 budget, failsLeft>>
  /\ UNCHANGED ext

PushIndexWriteFail(p) ==
  /\ At(p, "save", "push_index_write")
  /\ Fails
  /\ SaveSyncError(p, "indexWrite")
  /\ UNCHANGED remote
  /\ UNCHANGED ext

(* getEntryIndex and !verifyIndex[entry.id], storage.ts:333-337 *)
PushIndexVerify(p) ==
  /\ At(p, "save", "push_index_verify")
  /\ IF IndexHas(syncIndex, arg[p].id)
     THEN /\ Flag(p, {"synced"})
          /\ SaveReturns(p)
     ELSE SaveSyncError(p, "indexMismatch")
  /\ UNCHANGED <<remote, failsLeft>>
  /\ UNCHANGED ext

(* The read fails: getEntryIndex returns {} and the check throws. *)
PushIndexVerifyFail(p) ==
  /\ At(p, "save", "push_index_verify")
  /\ Fails
  /\ SaveSyncError(p, "indexRead")
  /\ UNCHANGED remote
  /\ UNCHANGED ext


(***************************************************************************)
(* deleteEntry (storage.ts:523-544), deleteEntryFromSyncStorage (547-559). *)
(***************************************************************************)
(* The try/catch around deleteEntryFromSyncStorage, storage.ts:538-542 *)
DeleteCatchesSyncError_Off == FALSE
DeleteCatchesSyncError == TRUE

DeleteReturns(p) ==
  /\ Settle(p, "ok")
  /\ UNCHANGED <<local, db, frame, lidx, pos, got, pullEnd, lastPushed, budget>>

DeleteSyncError(p) ==
  /\ Flag(p, {"remoteErr"})
  /\ IF DeleteCatchesSyncError
     THEN DeleteReturns(p)
     ELSE /\ Settle(p, "rejected")
          /\ UNCHANGED <<local, db, frame, lidx, pos, got, pullEnd, lastPushed, budget>>

(* store.delete(id), storage.ts:527-534 *)
DeleteEntry(p, d, id) ==
  /\ db[d]
  /\ IdInOrder(id)
  /\ Begin(p, "delete", d, [id |-> id, content |-> <<>>], "del_index_read")
  /\ local' = [local EXCEPT ![d][id] = NoEntry]
  /\ UNCHANGED <<db, remote>>
  /\ UNCHANGED ext

(* checkSyncStorageAvailable (storage.ts:537) says available; then        *)
(* getEntryIndex and if (entryInfo), storage.ts:548-551 *)
DeleteIndexRead(p) ==
  /\ At(p, "delete", "del_index_read")
  /\ IF IndexHas(syncIndex, arg[p].id)
     THEN /\ lidx' = [lidx EXCEPT ![p] = syncIndex]
          /\ Goto(p, "del_remove")
          /\ Flag(p, {"listed"})
          /\ UNCHANGED <<local, db, frame, pos, got, result, pullEnd, lastPushed, budget>>
     ELSE /\ DeleteReturns(p)
          /\ UNCHANGED flags
  /\ UNCHANGED <<remote, failsLeft>>
  /\ UNCHANGED ext

(* The replica is unavailable, or the read fails: getEntryIndex returns {} *)
(* and entryInfo is undefined.                                             *)
DeleteIndexReadFail(p) ==
  /\ At(p, "delete", "del_index_read")
  /\ Fails
  /\ Flag(p, {"remoteErr"})
  /\ DeleteReturns(p)
  /\ UNCHANGED remote
  /\ UNCHANGED ext

(* chrome.storage.sync.remove(entryInfo.chunkKeys), storage.ts:553 *)
DeleteRemoveChunks(p) ==
  /\ At(p, "delete", "del_remove")
  /\ LET gone == KeySet(lidx[p][IndexPos(lidx[p], arg[p].id)].chunkKeys)
     IN syncChunks' = [k \in ChunkKeySpace |-> IF k \in gone THEN NoChunk ELSE syncChunks[k]]
  /\ Goto(p, "del_index_write")
  /\ UNCHANGED <<local, db, syncIndex, frame, lidx, pos, got, result, pullEnd,
                 flags, lastPushed, budget, failsLeft>>
  /\ UNCHANGED ext

DeleteRemoveChunksFail(p) ==
  /\ At(p, "delete", "del_remove")
  /\ Fails
  /\ DeleteSyncError(p)
  /\ UNCHANGED remote
  /\ UNCHANGED ext

(* delete index[entryId]; updateEntryIndex(index), storage.ts:556-557 *)
DeleteIndexWrite(p) ==
  /\ At(p, "delete", "del_index_write")
  /\ syncIndex' = IndexDelete(lidx[p], arg[p].id)
  /\ Flag(p, {"wroteIndex"})
  /\ Settle(p, "ok")
  /\ lastPushed' = [lastPushed EXCEPT ![arg[p].id] = NoEntry]
  /\ UNCHANGED <<local, db, syncChunks, frame, lidx, pos, got, pullEnd, budget, failsLeft>>
  /\ UNCHANGED ext

DeleteIndexWriteFail(p) ==
  /\ At(p, "delete", "del_index_write")
  /\ Fails
  /\ DeleteSyncError(p)
  /\ UNCHANGED remote
  /\ UNCHANGED ext

(***************************************************************************)
(* clearAllData, storage.ts:739-768.                                       *)
(***************************************************************************)
ClearReturns(p) ==
  /\ Settle(p, "ok")
  /\ UNCHANGED <<local, db, frame, lidx, pos, got, pullEnd, lastPushed, budget>>

(* store.clear(), storage.ts:743-750 *)
ClearAllData(p, d) ==
  /\ db[d]
  /\ Begin(p, "clear", d, NoArg, "clr_index_read")
  /\ local' = [local EXCEPT ![d] = [id \in Ids |-> NoEntry]]
  /\ UNCHANGED <<db, remote>>
  /\ UNCHANGED ext

(* checkSyncStorageAvailable (storage.ts:753) says available; then        *)
(* getEntryIndex, storage.ts:756-760 *)
ClearIndexRead(p) ==
  /\ At(p, "clear", "clr_index_read")
  /\ lidx' = [lidx EXCEPT ![p] = syncIndex]
  /\ Goto(p, "clr_remove")
  /\ UNCHANGED <<local, db, remote, frame, pos, got, result, pullEnd, flags,
                 lastPushed, budget, failsLeft>>
  /\ UNCHANGED ext

(* The read fails: getEntryIndex returns {}. *)
ClearIndexReadFail(p) ==
  /\ At(p, "clear", "clr_index_read")
  /\ Fails
  /\ lidx' = [lidx EXCEPT ![p] = <<>>]
  /\ Goto(p, "clr_remove")
  /\ Flag(p, {"remoteErr"})
  /\ UNCHANGED <<local, db, remote, frame, pos, got, result, pullEnd, lastPushed, budget>>
  /\ UNCHANGED ext

(* The replica is unavailable: nothing remote is cleared. *)
ClearUnavailable(p) ==
  /\ At(p, "clear", "clr_index_read")
  /\ Fails
  /\ Flag(p, {"remoteErr"})
  /\ ClearReturns(p)
  /\ UNCHANGED remote
  /\ UNCHANGED ext

(* chrome.storage.sync.remove([...allChunkKeys, SYNC_STORAGE_INDEX_KEY]), storage.ts:763 *)
ClearRemove(p) ==
  /\ At(p, "clear", "clr_remove")
  /\ LET gone == AllChunkKeys(lidx[p])
     IN syncChunks' = [k \in ChunkKeySpace |-> IF k \in gone THEN NoChunk ELSE syncChunks[k]]
  /\ syncIndex' = <<>>
  /\ lastPushed' = [id \in Ids |-> NoEntry]
  /\ Flag(p, {"wroteIndex"})
  /\ Settle(p, "ok")
  /\ UNCHANGED <<local, db, frame, lidx, pos, got, pullEnd, budget, failsLeft>>
  /\ UNCHANGED ext

ClearRemoveFail(p) ==
  /\ At(p, "clear", "clr_remove")
  /\ Fails
  /\ Flag(p, {"remoteErr"})
  /\ ClearReturns(p)
  /\ UNCHANGED remote
  /\ UNCHANGED ext


(***************************************************************************)
(* syncFromChromeStorage (storage.ts:177-236), run by init and by the      *)
(* change listener.                                                        *)
(***************************************************************************)
IsPull(p) == op[p] \in {"init", "listen"}
AtPull(p, at) == NoneDone /\ IsPull(p) /\ pc[p] = at

(* try/catch around the awaited pull of init, storage.ts:57-63 *)
InitCatchesPullError == TRUE

(* The pull ends: a blocking init resolves now (storage.ts:57-71), a       *)
(* background pull only logs its error (66-68, 824-826, 835-837).          *)
PullEnds(p, how, fs) ==
  /\ pullEnd' = [pullEnd EXCEPT ![p] = how]
  /\ IF /\ op[p] = "init"
        /\ "resolved" \notin flags[p]
        /\ how \in {"error", "threw"}
        /\ ~InitCatchesPullError
     THEN /\ Flag(p, fs)
          /\ Settle(p, "rejected")
     ELSE /\ Flag(p, fs \cup (IF op[p] = "init" THEN {"resolved"} ELSE {}))
          /\ Settle(p, "ok")

(* checkSyncStorageAvailable (storage.ts:178) says available; then        *)
(* getEntryIndex and entryIds.length === 0, storage.ts:184-192 *)
PullIndexRead(p) ==
  /\ AtPull(p, "pull_index_read")
  /\ lidx' = [lidx EXCEPT ![p] = syncIndex]
  /\ IF Len(syncIndex) = 0
     THEN /\ PullEnds(p, "empty", {})
          /\ UNCHANGED pos
     ELSE /\ pos' = [pos EXCEPT ![p] = 1]
          /\ Goto(p, "pull_get")
          /\ UNCHANGED <<result, pullEnd, flags>>
  /\ UNCHANGED <<local, db, remote, frame, got, lastPushed, budget, failsLeft>>
  /\ UNCHANGED ext

(* The replica is unavailable, or the read fails and getEntryIndex returns *)
(* {}: nothing is pulled.                                                  *)
PullIndexReadFail(p) ==
  /\ AtPull(p, "pull_index_read")
  /\ Fails
  /\ PullEnds(p, "empty", {"remoteErr"})
  /\ UNCHANGED <<local, db, remote, frame, lidx, pos, got, lastPushed, budget>>
  /\ UNCHANGED ext

(* The chunks found under the keys, in the order of the keys (storage.ts:200-210) *)
RECURSIVE ChunksFound(_, _)
ChunksFound(chunkKeys, store) ==
  IF chunkKeys = <<>> THEN <<>>
  ELSE (IF store[Head(chunkKeys)] # NoChunk THEN <<store[Head(chunkKeys)]>> ELSE <<>>)
         \o ChunksFound(Tail(chunkKeys), store)

(* What a pull makes of an index record against the replica. *)
Reconstructed(rec, store) == reconstructEntryFromChunks(ChunksFound(rec.chunkKeys, store))

(* The loop goes to the next entry id, or ends (storage.ts:195, 231). *)
PullNext(p) ==
  IF pos[p] >= Len(lidx[p])
  THEN /\ pos' = [pos EXCEPT ![p] = Len(lidx[p]) + 1]
       /\ PullEnds(p, "complete", {})
  ELSE /\ pos' = [pos EXCEPT ![p] = pos[p] + 1]
       /\ Goto(p, "pull_get")
       /\ UNCHANGED <<result, pullEnd, flags>>

(* A SyntaxError of JSON.parse is not caught inside the loop: it leaves    *)
(* the loop and is re-thrown (storage.ts:158, 232-235).                    *)
PullSkipsUndecodable == FALSE

(* chrome.storage.sync.get(chunkKeys) and reconstructEntryFromChunks,      *)
(* storage.ts:200-214, 226-228 *)
PullGet(p) ==
  /\ AtPull(p, "pull_get")
  /\ LET entry == Reconstructed(lidx[p][pos[p]], syncChunks)
     IN IF entry = ParseError /\ ~PullSkipsUndecodable
        THEN /\ PullEnds(p, "threw", {})
             /\ UNCHANGED <<pos, got>>
        ELSE IF entry \notin {NoEntry, ParseError} /\ db[dev[p]]
        THEN /\ got' = [got EXCEPT ![p] = entry]
             /\ Goto(p, "pull_put")
             /\ UNCHANGED <<pos, result, pullEnd, flags>>
        ELSE /\ PullNext(p)
             /\ UNCHANGED got
  /\ UNCHANGED <<local, db, remote, frame, lidx, lastPushed, budget, failsLeft>>
  /\ UNCHANGED ext

PullGetFail(p) ==
  /\ AtPull(p, "pull_get")
  /\ Fails
  /\ PullEnds(p, "error", {"remoteErr"})
  /\ UNCHANGED <<local, db, remote, frame, lidx, pos, got, lastPushed, budget>>
  /\ UNCHANGED ext

(* store.put(entry), storage.ts:216-225 *)
PullPut(p) ==
  /\ AtPull(p, "pull_put")
  /\ local' = [local EXCEPT ![dev[p]][got[p].id] = got[p]]
  /\ got' = [got EXCEPT ![p] = NoEntry]
  /\ PullNext(p)
  /\ UNCHANGED <<db, remote, frame, lidx, lastPushed, budget, failsLeft>>
  /\ UNCHANGED ext

(***************************************************************************)
(* init, storage.ts:44-97.                                                 *)
(***************************************************************************)
(* isIndexedDBEmpty, storage.ts:100-111 *)
isIndexedDBEmpty(d) == \A id \in Ids : local[d][id] = NoEntry

InitAwaitsPull_Never(isEmpty) == FALSE

(* if (isEmpty) the pull is awaited, else it is left running (54-69). *)
InitAwaitsPull(isEmpty) == isEmpty

(* request.onsuccess: this.db is set, then the pull starts and resolve()   *)
(* is called after it (empty store) or at once (non-empty store).          *)
InitOpen(p, d) ==
  /\ DeviceInOrder(d)
  /\ LET isEmpty == isIndexedDBEmpty(d)
     IN BeginAll({p}, "init", d, NoArg, "pull_index_read",
                 {IF isEmpty THEN "wasEmpty" ELSE "wasNonEmpty"}
                   \cup (IF InitAwaitsPull(isEmpty) THEN {} ELSE {"resolved"}))
  /\ db' = [db EXCEPT ![d] = TRUE]
  /\ UNCHANGED <<local, remote>>
  /\ UNCHANGED ext


(***************************************************************************)
(* The chrome.storage.onChanged listener, storage.ts:817-862.              *)
(***************************************************************************)
Areas == {"sync", "local"}

(* The kinds of keys of a change event: the index key, entry chunk keys    *)
(* (prefix entry_), config keys (prefix config_).                          *)
ChangeSets == {<<"index">>, <<"chunk", "index">>, <<"config">>}

Touches(changes, kind) == \E k \in 1..Len(changes) : changes[k] = kind

(* The pulls the listener starts for an event, storage.ts:820-838: one for *)
(* the index key and one for the chunk keys. Config keys only update the   *)
(* config store, which is outside this model.                              *)
PullsStarted(areaName, changes) ==
  IF areaName = "sync"
  THEN (IF Touches(changes, "index") THEN 1 ELSE 0)
       + (IF Touches(changes, "chunk") THEN 1 ELSE 0)
  ELSE 0

OnChanged(d, areaName, changes) ==
  /\ DeviceInOrder(d)
  /\ \E ps \in SUBSET Procs :
       /\ Cardinality(ps) = PullsStarted(areaName, changes)
       /\ BeginAll(ps, "listen", d, [id |-> areaName, content |-> changes],
                   "pull_index_read", {})
  /\ UNCHANGED <<local, db, remote>>
  /\ UNCHANGED ext

(***************************************************************************)
(* The system.                                                             *)
(***************************************************************************)
Next ==
  \/ \E p \in Procs : Retire(p)
  \/ \E p \in Procs, d \in Devices : InitOpen(p, d)
  \/ \E p \in Procs, d \in Devices, entry \in SmallEntries : SaveEntry(p, d, entry)
  \/ \E p \in Procs, d \in Devices, id \in Ids : DeleteEntry(p, d, id)
  \/ \E p \in Procs, d \in Devices : ClearAllData(p, d)
  \/ \E d \in Devices, areaName \in Areas, changes \in ChangeSets : OnChanged(d, areaName, changes)
  \/ \E p \in Procs :
       \/ PushChunks(p) \/ PushChunksFail(p)
       \/ PushVerify(p) \/ PushVerifyFail(p)
       \/ PushIndexRead(p) \/ PushIndexReadFail(p)
       \/ PushIndexWrite(p) \/ PushIndexWriteFail(p)
       \/ PushIndexVerify(p) \/ PushIndexVerifyFail(p)
       \/ DeleteIndexRead(p) \/ DeleteIndexReadFail(p)
       \/ DeleteRemoveChunks(p) \/ DeleteRemoveChunksFail(p)
       \/ DeleteIndexWrite(p) \/ DeleteIndexWriteFail(p)
       \/ ClearIndexRead(p) \/ ClearIndexReadFail(p) \/ ClearUnavailable(p)
       \/ ClearRemove(p) \/ ClearRemoveFail(p)
       \/ PullIndexRead(p) \/ PullIndexReadFail(p)
       \/ PullGet(p) \/ PullGetFail(p)
       \/ PullPut(p)

Spec == Init /\ [][Next]_vars


(***************************************************************************)
(* Saves and startup pulls only, with every remote call succeeding.        *)
(***************************************************************************)
PushSteps(p) ==
  \/ PushChunks(p)
  \/ PushVerify(p)
  \/ PushIndexRead(p)
  \/ PushIndexWrite(p)
  \/ PushIndexVerify(p)

PullSteps(p) ==
  \/ PullIndexRead(p)
  \/ PullGet(p)
  \/ PullPut(p)

NextPush ==
  \/ \E p \in Procs : Retire(p)
  \/ \E p \in Procs, d \in Devices : InitOpen(p, d)
  \/ \E p \in Procs, d \in Devices, entry \in SmallEntries : SaveEntry(p, d, entry)
  \/ \E p \in Procs : PushSteps(p) \/ PullSteps(p)

SpecPush == Init /\ [][NextPush]_vars

(***************************************************************************)
(* Saves, deletes and clears where only the remote calls of a delete or of *)
(* a clear may fail.                                                       *)
(***************************************************************************)
RemoveSteps(p) ==
  \/ DeleteIndexRead(p) \/ DeleteIndexReadFail(p)
  \/ DeleteRemoveChunks(p) \/ DeleteRemoveChunksFail(p)
  \/ DeleteIndexWrite(p) \/ DeleteIndexWriteFail(p)
  \/ ClearIndexRead(p) \/ ClearIndexReadFail(p) \/ ClearUnavailable(p)
  \/ ClearRemove(p) \/ ClearRemoveFail(p)

NextRemove ==
  \/ \E p \in Procs : Retire(p)
  \/ \E p \in Procs, d \in Devices : InitOpen(p, d)
  \/ \E p \in Procs, d \in Devices, entry \in SmallEntries : SaveEntry(p, d, entry)
  \/ \E p \in Procs, d \in Devices, id \in Ids : DeleteEntry(p, d, id)
  \/ \E p \in Procs, d \in Devices : ClearAllData(p, d)
  \/ \E p \in Procs : PushSteps(p) \/ PullSteps(p) \/ RemoveSteps(p)

SpecRemove == Init /\ [][NextRemove]_vars

(***************************************************************************)
(* Saves whose remote calls may fail, and startup pulls: the replication   *)
(* attempts of saveEntry.                                                  *)
(***************************************************************************)
PushFailSteps(p) ==
  \/ PushChunksFail(p)
  \/ PushVerifyFail(p)
  \/ PushIndexReadFail(p)
  \/ PushIndexWriteFail(p)
  \/ PushIndexVerifyFail(p)

NextRetry ==
  \/ \E p \in Procs : Retire(p)
  \/ \E p \in Procs, d \in Devices : InitOpen(p, d)
  \/ \E p \in Procs, d \in Devices, entry \in SmallEntries : SaveEntry(p, d, entry)
  \/ \E p \in Procs : PushSteps(p) \/ PushFailSteps(p) \/ PullSteps(p)

SpecRetry == Init /\ [][NextRetry]_vars

(***************************************************************************)
(* A fixed sequence of calls: device 1 saves a one-chunk entry a and an    *)
(* entry b, one after the other; then it deletes a and saves two more      *)
(* revisions of a (three chunks, two chunks) while the delete is running;  *)
(* when all is settled device 2 starts up. Every remote call succeeds.     *)
(***************************************************************************)
Entry(id, content) == [id |-> id, content |-> content]
(* The call is issued once everything before it has settled ... *)
Later(o, d, a) == [call |-> [op |-> o, dev |-> d, arg |-> a], quiet |-> TRUE]
(* ... or at any time. *)
Anytime(o, d, a) == [call |-> [op |-> o, dev |-> d, arg |-> a], quiet |-> FALSE]

RaceScript ==
  << Later("init", 1, NoArg),
     Later("save", 1, Entry("a", <<>>)),
     Later("save", 1, Entry("b", <<>>)),
     Later("delete", 1, Entry("a", <<>>)),
     Anytime("save", 1, Entry("a", <<"x", "x", "x", "x">>)),
     Anytime("save", 1, Entry("a", <<"x">>)),
     Later("init", 2, NoArg) >>

InitRace ==
  /\ InitExt
  /\ local = [d \in Devices |-> [id \in Ids |-> NoEntry]]
  /\ db = [d \in Devices |-> FALSE]
  /\ syncChunks = [k \in ChunkKeySpace |-> NoChunk]
  /\ syncIndex = <<>>
  /\ pc = [p \in Procs |-> "idle"]
  /\ op = [p \in Procs |-> "none"]
  /\ dev = [p \in Procs |-> 1]
  /\ arg = [p \in Procs |-> NoArg]
  /\ lidx = [p \in Procs |-> <<>>]
  /\ pos = [p \in Procs |-> 0]
  /\ got = [p \in Procs |-> NoEntry]
  /\ result = [p \in Procs |-> "none"]
  /\ pullEnd = [p \in Procs |-> "none"]
  /\ flags = [p \in Procs |-> {}]
  /\ lastPushed = [id \in Ids |-> NoEntry]
  /\ opsLeft = 0
  /\ todo = RaceScript
  /\ failsLeft = 0

NextRace ==
  \/ \E p \in Procs : Retire(p)
  \/ \E p \in Procs, d \in Devices : InitOpen(p, d)
  \/ \E p \in Procs, d \in Devices, entry \in Entries : SaveEntry(p, d, entry)
  \/ \E p \in Procs, d \in Devices, id \in Ids : DeleteEntry(p, d, id)
  \/ \E p \in Procs :
       \/ PushSteps(p)
       \/ PullSteps(p)
       \/ DeleteIndexRead(p)
       \/ DeleteRemoveChunks(p)
       \/ DeleteIndexWrite(p)

SpecRace == InitRace /\ [][NextRace]_vars

(***************************************************************************)
(* Operations of one device on a Local Store that holds entries already.   *)
(* The remote half of a save or of a delete is one step here: it completes *)
(* as it does when it runs alone, or it fails and is caught.               *)
(***************************************************************************)
(* The replica once saveEntryToSyncStorage(entry) has run (storage.ts:276-338). *)
PushedChunks(entry, store) ==
  LET chunks == splitEntryIntoChunks(entry)
  IN [k \in ChunkKeySpace |->
        IF \E j \in 1..Len(chunks) : ChunkKey(entry.id, chunks[j].chunkIndex) = k
        THEN chunks[CHOOSE j \in 1..Len(chunks) : ChunkKey(entry.id, chunks[j].chunkIndex) = k]
        ELSE store[k]]

PushedIndex(entry, index) ==
  IndexPut(index, entry.id, ChunkKeysOf(splitEntryIntoChunks(entry)))

(* The replica once deleteEntryFromSyncStorage(id) has run (storage.ts:547-559). *)
RemovedChunks(id, index, store) ==
  IF IndexHas(index, id)
  THEN [k \in ChunkKeySpace |->
          IF k \in KeySet(index[IndexPos(index, id)].chunkKeys) THEN NoChunk ELSE store[k]]
  ELSE store

RemovedIndex(id, index) == IF IndexHas(index, id) THEN IndexDelete(index, id) ELSE index

(* The Local Stores a device can hold: under each id an entry of that id,  *)
(* or nothing.                                                             *)
Stores == {st \in [Ids -> Entries \cup {NoEntry}] :
             \A id \in Ids : st[id] # NoEntry => st[id].id = id}

RECURSIVE PushedAll(_, _, _)
PushedAll(st, ids, rem) ==
  IF ids = {} THEN rem
  ELSE LET id == CHOOSE x \in ids : \A y \in ids : x = "a" \/ y # "a"
           nxt == IF st[id] = NoEntry THEN rem
                  ELSE <<PushedChunks(st[id], rem[1]), PushedIndex(st[id], rem[2])>>
       IN PushedAll(st, ids \ {id}, nxt)

(* Device 1 has run init and holds the store st, whose entries were pushed. *)
InitStoreBase(st, se, at) ==
  /\ createdAt = [d \in Devices |-> [id \in Ids |-> IF d = 1 /\ st[id] # NoEntry THEN at ELSE 0]]
  /\ settings = se
  /\ responses = [p \in Procs |-> <<>>]
  /\ recentEntriesCache = <<>>
  /\ cacheTimestamp = 0
  /\ now = CACHE_DURATION
  /\ local = [d \in Devices |-> IF d = 1 THEN st ELSE [id \in Ids |-> NoEntry]]
  /\ db = [d \in Devices |-> d = 1]
  /\ LET rem == PushedAll(st, Ids, <<[k \in ChunkKeySpace |-> NoChunk], <<>>>>)
     IN syncChunks = rem[1] /\ syncIndex = rem[2]
  /\ pc = [p \in Procs |-> IF p <= Concurrency THEN "idle" ELSE "off"]
  /\ op = [p \in Procs |-> "none"]
  /\ dev = [p \in Procs |-> 1]
  /\ arg = [p \in Procs |-> NoArg]
  /\ lidx = [p \in Procs |-> <<>>]
  /\ pos = [p \in Procs |-> 0]
  /\ got = [p \in Procs |-> NoEntry]
  /\ result = [p \in Procs |-> "none"]
  /\ pullEnd = [p \in Procs |-> "none"]
  /\ flags = [p \in Procs |-> {}]
  /\ lastPushed = [id \in Ids |-> NoEntry]
  /\ opsLeft = MaxCalls
  /\ todo = <<>>
  /\ failsLeft = MaxFails

InitStoreAt(st, se, at) ==
  /\ InitStoreBase(st, se, at)
  /\ locals = [p \in Procs |-> NoLocals]

InitStoreWith(st, se) == InitStoreAt(st, se, 0)

InitStore(st) == InitStoreWith(st, DefaultSettings)

(* Everything but the Local Stores, the replica and the locals of p. *)
others == <<db, frame, lidx, pos, got, pullEnd, lastPushed, budget,
            createdAt, settings, responses, recentEntriesCache, cacheTimestamp, now>>

(***************************************************************************)
(* mergeEntries, storage.ts:890-963.                                       *)
(***************************************************************************)
NotFound_Never(entry) == FALSE

(* if (!source) / if (!target), storage.ts:897-902 *)
NotFound(entry) == entry = NoEntry

KeepsTargetContent_Strict(source, target) == Len(target.content) > Len(source.content)

(* target.content.length >= source.content.length, storage.ts:931 *)
KeepsTargetContent(source, target) == Len(target.content) >= Len(source.content)

(* mergedEntry (storage.ts:912-954): the target's id, the longer content.  *)
mergedEntry(source, target) ==
  [id |-> target.id,
   content |-> IF KeepsTargetContent(source, target)
               THEN target.content ELSE source.content]

MergeEntries(p, d, sourceId, targetId) ==
  /\ db[d]
  /\ Begin(p, "merge", d, NoArg, "mrg_get_source")
  /\ locals' = [locals EXCEPT ![p] =
                  [sourceId |-> sourceId, targetId |-> targetId,
                   source |-> NoEntry, target |-> NoEntry,
                   before |-> <<local[d], syncChunks, syncIndex>>]]
  /\ UNCHANGED <<local, db, remote, createdAt, settings, responses,
                 recentEntriesCache, cacheTimestamp, now>>

(* const source = await this.getEntry(sourceId), storage.ts:894 *)
MergeGetSource(p) ==
  /\ At(p, "merge", "mrg_get_source")
  /\ locals' = [locals EXCEPT ![p].source = local[dev[p]][locals[p].sourceId]]
  /\ Goto(p, "mrg_get_target")
  /\ UNCHANGED <<local, remote, result, flags, failsLeft, others>>

(* const target = await this.getEntry(targetId) and the two checks, 895-902 *)
MergeGetTarget(p) ==
  /\ At(p, "merge", "mrg_get_target")
  /\ LET target == local[dev[p]][locals[p].targetId]
     IN /\ locals' = [locals EXCEPT ![p].target = target]
        /\ IF NotFound(locals[p].source)
           THEN /\ Settle(p, "rejected")
                /\ Flag(p, {"sourceNotFound"})
           ELSE IF NotFound(target)
           THEN /\ Settle(p, "rejected")
                /\ Flag(p, {"targetNotFound"})
           ELSE /\ Goto(p, "mrg_put")
                /\ UNCHANGED <<result, flags>>
  /\ UNCHANGED <<local, remote, failsLeft, others>>

(* saveEntry(mergedEntry): store.put, storage.ts:957, 242-249 *)
MergePut(p) ==
  /\ At(p, "merge", "mrg_put")
  /\ LET merged == mergedEntry(locals[p].source, locals[p].target)
     IN local' = [local EXCEPT ![dev[p]][merged.id] = merged]
  /\ Goto(p, "mrg_push")
  /\ UNCHANGED <<remote, result, flags, failsLeft, locals, others>>

(* The put request fails: saveEntry rejects and so does mergeEntries. *)
MergePutFail(p) ==
  /\ At(p, "merge", "mrg_put")
  /\ Fails
  /\ Settle(p, "rejected")
  /\ Flag(p, {"putFailed"})
  /\ UNCHANGED <<local, remote, locals, others>>

(* saveEntry(mergedEntry): its remote half, storage.ts:252-272 *)
MergePush(p) ==
  /\ At(p, "merge", "mrg_push")
  /\ LET merged == mergedEntry(locals[p].source, locals[p].target)
     IN /\ syncChunks' = PushedChunks(merged, syncChunks)
        /\ syncIndex' = PushedIndex(merged, syncIndex)
  /\ Goto(p, "mrg_delete")
  /\ UNCHANGED <<local, result, flags, failsLeft, locals, others>>

(* The remote half fails: the error is caught, storage.ts:257-265 *)
MergePushFail(p) ==
  /\ At(p, "merge", "mrg_push")
  /\ Fails
  /\ Goto(p, "mrg_delete")
  /\ Flag(p, {"remoteErr"})
  /\ UNCHANGED <<local, remote, result, locals, others>>

(* deleteEntry(sourceId): store.delete, storage.ts:960, 527-534 *)
MergeDelete(p) ==
  /\ At(p, "merge", "mrg_delete")
  /\ local' = [local EXCEPT ![dev[p]][locals[p].sourceId] = NoEntry]
  /\ Goto(p, "mrg_unpush")
  /\ UNCHANGED <<remote, result, flags, failsLeft, locals, others>>

(* The delete request fails: deleteEntry rejects and so does mergeEntries. *)
MergeDeleteFail(p) ==
  /\ At(p, "merge", "mrg_delete")
  /\ Fails
  /\ Settle(p, "rejected")
  /\ Flag(p, {"deleteFailed"})
  /\ UNCHANGED <<local, remote, locals, others>>

(* deleteEntry(sourceId): its remote half (storage.ts:537-543); then       *)
(* return mergedEntry (962).                                               *)
MergeUnpush(p) ==
  /\ At(p, "merge", "mrg_unpush")
  /\ syncChunks' = RemovedChunks(locals[p].sourceId, syncIndex, syncChunks)
  /\ syncIndex' = RemovedIndex(locals[p].sourceId, syncIndex)
  /\ Settle(p, "ok")
  /\ UNCHANGED <<local, flags, failsLeft, locals, others>>

MergeUnpushFail(p) ==
  /\ At(p, "merge", "mrg_unpush")
  /\ Fails
  /\ Settle(p, "ok")
  /\ Flag(p, {"remoteErr"})
  /\ UNCHANGED <<local, remote, locals, others>>

InitMerge == \E st \in Stores : InitStore(st)

NextMerge ==
  \/ \E p \in Procs : Retire(p)
  \/ \E p \in Procs, sourceId \in Ids, targetId \in Ids : MergeEntries(p, 1, sourceId, targetId)
  \/ \E p \in Procs :
       \/ MergeGetSource(p)
       \/ MergeGetTarget(p)
       \/ MergePut(p) \/ MergePutFail(p)
       \/ MergePush(p) \/ MergePushFail(p)
       \/ MergeDelete(p) \/ MergeDeleteFail(p)
       \/ MergeUnpush(p) \/ MergeUnpushFail(p)

SpecMerge == InitMerge /\ [][NextMerge]_vars

(***************************************************************************)
(* The message handler of the background script, background.ts:133-424,    *)
(* on device 1. A handler runs the operation of its switch case and passes *)
(* a result to sendResponse.                                               *)
(***************************************************************************)
proc0 == <<db, frame, lidx, pos, got, pullEnd, lastPushed, budget>>
cache == <<recentEntriesCache, cacheTimestamp>>

(* Cases that await one read and respond with its data. *)
ReadActions == {"getEntries", "getEntriesPaginated", "getRecentEntries", "searchEntries",
                "getSettings", "exportData", "getUserAgreement"}
(* Cases that end in storageService.saveEntry. *)
SaveActions == {"saveEntry", "importData", "captureContent"}
(* Cases that need request.tabId. *)
TabActions == {"captureSelection", "capturePage"}
KnownActions == ReadActions \cup SaveActions \cup TabActions
                  \cup {"deleteEntry", "updateSettings", "captureImage", "clearAllData",
                        "getEntry", "setUserAgreement"}
(* Actions the switch has no case for. *)
UnknownActions == {"mergeEntries", "findDuplicates", "bogus"}

SettingsSpace == {DefaultSettings,
                  [autoCleanup |-> TRUE, maxEntries |-> 0],
                  [autoCleanup |-> TRUE, maxEntries |-> 1],
                  [autoCleanup |-> FALSE, maxEntries |-> 1]}

Request(action, entry, at, tabId, restricted, se) ==
  [action |-> action, entry |-> entry, createdAt |-> at, tabId |-> tabId,
   restricted |-> restricted, settings |-> se]

(* A request that carries nothing but its action. *)
Bare(action) == Request(action, NoEntry, 0, FALSE, FALSE, DefaultSettings)

(* The requests with an entry to save, at a createdAt. *)
SaveRequests(actions, times) ==
  {Request(a, e, t, FALSE, FALSE, DefaultSettings) : a \in actions, e \in SmallEntries, t \in times}

(* The requests that name an id. *)
IdRequests(actions) ==
  {Request(a, [id |-> id, content |-> <<>>], 0, FALSE, FALSE, DefaultSettings) :
     a \in actions, id \in Ids}

Requests ==
  {Bare(a) : a \in ReadActions \cup {"clearAllData", "setUserAgreement", "findDuplicates",
                                     "bogus"}}
    \cup SaveRequests(SaveActions, {1})
    \cup IdRequests({"getEntry", "deleteEntry", "mergeEntries"})
    \cup {Request(a, NoEntry, 0, t, r, DefaultSettings) :
            a \in TabActions \cup {"captureImage"}, t \in BOOLEAN, r \in BOOLEAN}
    \cup {Request("updateSettings", NoEntry, 0, FALSE, FALSE, se) : se \in SettingsSpace}

Success(data) == [success |-> TRUE, error |-> "none", data |-> data]
Failure(error) == [success |-> FALSE, error |-> error, data |-> NoEntry]

(* sendResponse(r); then the handler has nothing left to do. *)
Reply(p, r) ==
  /\ responses' = [responses EXCEPT ![p] = Append(@, r)]
  /\ Settle(p, IF r.success THEN "ok" ELSE "failed")

HandlerCatches_Off == FALSE

(* try { switch ... } catch (error) { sendResponse({success: false, ...}) }, *)
(* background.ts:138, 414-420, and the try/catch inside a case.            *)
HandlerCatches == TRUE

(* The operation of the case throws. *)
Thrown(p) ==
  IF HandlerCatches
  THEN Reply(p, Failure("error.message"))
  ELSE /\ Settle(p, "uncaught")
       /\ UNCHANGED responses

(* request.result || null, storage.ts:414-425 *)
getEntry(d, id) == local[d][id]

(* The id names no entry of the Local Store. *)
Absent(id) == id \in Ids /\ getEntry(1, id) = NoEntry

(* crypto.randomUUID(), background.ts:606: an id no entry has. *)
Fresh(id) ==
  /\ local[1][id] = NoEntry
  /\ \A q \in Procs : Active(q) /\ op[q] = "msg" => locals[q].entry.id # id

HandleMessage(p, request) ==
  /\ db[1]
  /\ request.action = "captureContent" => Fresh(request.entry.id)
  /\ Begin(p, "msg", 1, NoArg,
           IF request.action \in SaveActions THEN "sv_put" ELSE "h_run")
  /\ locals' = [locals EXCEPT ![p] =
                  [request |-> request,
                   entry |-> request.entry,
                   createdAt |-> IF request.action = "captureContent" THEN now
                                 ELSE request.createdAt,
                   absent |-> FALSE, maxEntries |-> 0, count |-> 0,
                   before |-> <<local[1], createdAt[1]>>]]
  /\ responses' = [responses EXCEPT ![p] = <<>>]
  /\ UNCHANGED <<local, db, remote, createdAt, settings, cache, now>>

(* What the operation of a case other than a save leaves and responds. *)
RanLocal(rq) ==
  CASE rq.action = "deleteEntry" -> [local[1] EXCEPT ![rq.entry.id] = NoEntry]
    [] rq.action = "clearAllData" -> [id \in Ids |-> NoEntry]
    [] OTHER -> local[1]

RanCreatedAt(rq) ==
  CASE rq.action = "deleteEntry" -> [createdAt[1] EXCEPT ![rq.entry.id] = 0]
    [] rq.action = "clearAllData" -> [id \in Ids |-> 0]
    [] OTHER -> createdAt[1]

RanRemote(rq) ==
  CASE rq.action = "deleteEntry" ->
         <<RemovedChunks(rq.entry.id, syncIndex, syncChunks), RemovedIndex(rq.entry.id, syncIndex)>>
    [] rq.action = "clearAllData" ->
         <<[k \in ChunkKeySpace |-> IF k \in AllChunkKeys(syncIndex) THEN NoChunk ELSE syncChunks[k]],
           <<>>>>
    [] OTHER -> <<syncChunks, syncIndex>>

Response(rq) ==
  CASE rq.action \in UnknownActions -> Failure("Unknown action")
    [] rq.action = "getEntry" ->
         IF getEntry(1, rq.entry.id) # NoEntry
         THEN Success(getEntry(1, rq.entry.id))
         ELSE Failure("Entry not found")
    [] rq.action \in TabActions ->
         IF ~rq.tabId THEN Failure("No tab ID provided")
         ELSE IF rq.restricted THEN Failure("getRestrictedPageErrorMessage")
         ELSE Success(NoEntry)
    [] rq.action = "captureImage" ->
         IF rq.tabId THEN Failure("Image capture must be initiated from context menu")
         ELSE Failure("No tab ID provided")
    [] OTHER -> Success(NoEntry)

(* The awaited operation of the case resolves and the case responds. *)
HandlerRun(p) ==
  /\ At(p, "msg", "h_run")
  /\ LET rq == locals[p].request
     IN /\ local' = [local EXCEPT ![1] = RanLocal(rq)]
        /\ createdAt' = [createdAt EXCEPT ![1] = RanCreatedAt(rq)]
        /\ syncChunks' = RanRemote(rq)[1]
        /\ syncIndex' = RanRemote(rq)[2]
        /\ settings' = IF rq.action = "updateSettings" THEN rq.settings ELSE settings
        /\ locals' = [locals EXCEPT ![p].absent = Absent(rq.entry.id)]
        /\ Reply(p, Response(rq))
  /\ UNCHANGED <<proc0, flags, failsLeft, cache, now>>

(* The remote half of deleteEntry or clearAllData fails and is caught      *)
(* (storage.ts:538-542, 764-766).                                          *)
HandlerRemoteFail(p) ==
  /\ At(p, "msg", "h_run")
  /\ locals[p].request.action \in {"deleteEntry", "clearAllData"}
  /\ Fails
  /\ LET rq == locals[p].request
     IN /\ local' = [local EXCEPT ![1] = RanLocal(rq)]
        /\ createdAt' = [createdAt EXCEPT ![1] = RanCreatedAt(rq)]
        /\ locals' = [locals EXCEPT ![p].absent = Absent(rq.entry.id)]
        /\ Reply(p, Response(rq))
  /\ Flag(p, {"remoteErr"})
  /\ UNCHANGED <<proc0, remote, settings, cache, now>>

(* The awaited operation rejects before it changed anything. *)
HandlerRunFail(p) ==
  /\ At(p, "msg", "h_run")
  /\ LET rq == locals[p].request
     IN /\ rq.action \in KnownActions \ {"captureImage"}
        /\ rq.action \in TabActions => rq.tabId /\ ~rq.restricted
  /\ Fails
  /\ Thrown(p)
  /\ Flag(p, {"threw"})
  /\ UNCHANGED <<proc0, local, remote, createdAt, settings, locals, cache, now>>

(***************************************************************************)
(* saveEntry as the handler runs it, with enforceStorageLimits             *)
(* (storage.ts:238-273, 340-412) and, for a capture, the invalidation of   *)
(* the recent-entries cache (background.ts:629-634).                       *)
(***************************************************************************)
(* saveEntry returns; processCaptureRequest clears the cache; the case     *)
(* responds.                                                               *)
SaveEntryDone(p) ==
  /\ IF locals[p].request.action = "captureContent"
     THEN /\ recentEntriesCache' = <<>>
          /\ cacheTimestamp' = 0
     ELSE UNCHANGED cache
  /\ Reply(p, Success(IF locals[p].request.action = "captureContent"
                      THEN locals[p].entry ELSE NoEntry))

(* The data of a captureContent message has no content: request.content is *)
(* undefined (background.ts:593).                                          *)
ContentMissing(rq) == "content" \in DOMAIN rq /\ rq.content = "missing"

(* store.put(entry), storage.ts:242-249 *)
SavePut(p) ==
  /\ At(p, "msg", "sv_put")
  /\ ~ContentMissing(locals[p].request)
  /\ local' = [local EXCEPT ![1][locals[p].entry.id] = locals[p].entry]
  /\ createdAt' = [createdAt EXCEPT ![1][locals[p].entry.id] = locals[p].createdAt]
  /\ Goto(p, "sv_push")
  /\ UNCHANGED <<proc0, remote, result, flags, failsLeft, settings, locals, responses,
                 cache, now>>

(* The put request fails: saveEntry rejects. *)
SavePutFail(p) ==
  /\ At(p, "msg", "sv_put")
  /\ ~ContentMissing(locals[p].request)
  /\ Fails
  /\ Thrown(p)
  /\ Flag(p, {"threw"})
  /\ UNCHANGED <<proc0, local, remote, createdAt, settings, locals, cache, now>>

(* The remote half of saveEntry, storage.ts:252-269 *)
SavePush(p) ==
  /\ At(p, "msg", "sv_push")
  /\ syncChunks' = PushedChunks(locals[p].entry, syncChunks)
  /\ syncIndex' = PushedIndex(locals[p].entry, syncIndex)
  /\ Goto(p, "sv_limits")
  /\ UNCHANGED <<proc0, local, result, flags, failsLeft, createdAt, settings, locals,
                 responses, cache, now>>

SavePushFail(p) ==
  /\ At(p, "msg", "sv_push")
  /\ Fails
  /\ Goto(p, "sv_limits")
  /\ Flag(p, {"remoteErr"})
  /\ UNCHANGED <<proc0, local, remote, result, createdAt, settings, locals, responses,
                 cache, now>>

(* settings?.storage?.autoCleanup and settings.storage.maxEntries,         *)
(* storage.ts:345-353 *)
LimitsApply(se) == se.autoCleanup /\ se.maxEntries # 0

(* const settings = await this.getConfig('settings'), storage.ts:342-353 *)
EnforceConfig(p) ==
  /\ At(p, "msg", "sv_limits")
  /\ locals' = [locals EXCEPT ![p].maxEntries = settings.maxEntries]
  /\ IF LimitsApply(settings)
     THEN /\ Goto(p, "sv_count")
          /\ UNCHANGED <<result, responses, cache>>
     ELSE SaveEntryDone(p)
  /\ UNCHANGED <<proc0, local, remote, flags, failsLeft, createdAt, settings, now>>

(* store.count(), storage.ts:375-386 *)
getTotalCount(d) == Cardinality({id \in Ids : local[d][id] # NoEntry})

(* const totalCount = await this.getTotalCount(), storage.ts:355-359 *)
EnforceCount(p) ==
  /\ At(p, "msg", "sv_count")
  /\ LET totalCount == getTotalCount(1)
     IN IF totalCount > locals[p].maxEntries
        THEN /\ locals' = [locals EXCEPT ![p].count = totalCount - locals[p].maxEntries]
             /\ Goto(p, "sv_trim")
             /\ UNCHANGED <<result, responses, cache>>
        ELSE /\ SaveEntryDone(p)
             /\ UNCHANGED locals
  /\ UNCHANGED <<proc0, local, remote, flags, failsLeft, createdAt, settings, now>>

(* The store's createdAt index: by createdAt, then by id. *)
Older(ca, x, y) == ca[x] < ca[y] \/ (ca[x] = ca[y] /\ x = "a" /\ y = "b")

(* The ids of the count oldest entries, as the cursor meets them. *)
OldestIds(st, ca, count) ==
  {x \in Ids : /\ st[x] # NoEntry
               /\ Cardinality({y \in Ids : st[y] # NoEntry /\ Older(ca, y, x)}) < count}

(* deleteOldestEntries(entriesToDelete), storage.ts:388-412: one           *)
(* transaction on the Local Store.                                         *)
EnforceTrim(p) ==
  /\ At(p, "msg", "sv_trim")
  /\ LET gone == OldestIds(local[1], createdAt[1], locals[p].count)
     IN /\ local' = [local EXCEPT ![1] = [id \in Ids |-> IF id \in gone THEN NoEntry ELSE @[id]]]
        /\ createdAt' = [createdAt EXCEPT ![1] = [id \in Ids |-> IF id \in gone THEN 0 ELSE @[id]]]
  /\ SaveEntryDone(p)
  /\ UNCHANGED <<proc0, remote, flags, failsLeft, settings, locals, now>>

(* catch (error) { console.error('Failed to enforce storage limits') },    *)
(* storage.ts:370-372: a failing read of the settings, count or cursor     *)
(* ends enforceStorageLimits and saveEntry returns.                        *)
EnforceFail(p) ==
  /\ op[p] = "msg"
  /\ pc[p] \in {"sv_limits", "sv_count", "sv_trim"}
  /\ NoneDone
  /\ Fails
  /\ Flag(p, {"limitsErr"})
  /\ SaveEntryDone(p)
  /\ UNCHANGED <<proc0, local, remote, createdAt, settings, locals, now>>

(* The steps of saveEntry. *)
SaveSteps(p) ==
  \/ SavePut(p) \/ SavePutFail(p)
  \/ SavePush(p) \/ SavePushFail(p)
  \/ EnforceConfig(p)
  \/ EnforceCount(p)
  \/ EnforceTrim(p)
  \/ EnforceFail(p)

HandlerSteps(p) ==
  \/ HandlerRun(p) \/ HandlerRunFail(p) \/ HandlerRemoteFail(p)
  \/ SaveSteps(p)

(* The stores the handlers start from: each id absent or present. *)
HandlerStores == {st \in Stores : \A id \in Ids : st[id] # NoEntry => st[id].content = <<>>}

InitHandler == \E st \in HandlerStores : InitStore(st)

NextHandler ==
  \/ \E p \in Procs : Retire(p)
  \/ \E p \in Procs, request \in Requests : HandleMessage(p, request)
  \/ \E p \in Procs : HandlerSteps(p)

SpecHandler == InitHandler /\ [][NextHandler]_vars

(***************************************************************************)
(* Captures by the fields of their data: processCaptureRequest             *)
(* (background.ts:589-652) builds the entry from request.content and       *)
(* request.title and saves it.                                             *)
(***************************************************************************)
FieldKinds == {"missing", "empty", "text"}

(* { action: 'captureContent', data: { content, title, ... } } *)
CaptureData(id, content, title) ==
  [action |-> "captureContent",
   entry |-> [id |-> id, content |-> IF content = "text" THEN <<"x">> ELSE <<>>],
   createdAt |-> 0, tabId |-> FALSE, restricted |-> FALSE, settings |-> DefaultSettings,
   content |-> content, title |-> title]

(* request.content.substring(0, 100) on an undefined content: a TypeError, *)
(* caught by the listener (background.ts:593, 414-420).                    *)
CaptureThrows(p) ==
  /\ At(p, "msg", "sv_put")
  /\ ContentMissing(locals[p].request)
  /\ Thrown(p)
  /\ Flag(p, {"threw"})
  /\ UNCHANGED <<proc0, local, remote, failsLeft, createdAt, settings, locals, cache, now>>

InitCapture ==
  \E st \in HandlerStores, se \in {DefaultSettings, [autoCleanup |-> TRUE, maxEntries |-> 1]} :
    InitStoreAt(st, se, 1)

NextCapture ==
  \/ \E p \in Procs : Retire(p)
  \/ \E p \in Procs, id \in Ids, content \in FieldKinds, title \in FieldKinds :
       HandleMessage(p, CaptureData(id, content, title))
  \/ \E p \in Procs : CaptureThrows(p)
  \/ \E p \in Procs : SaveSteps(p)

SpecCapture == InitCapture /\ [][NextCapture]_vars

(***************************************************************************)
(* The omnibox and its cache of recent entries (background.ts:705-707,     *)
(* 715-726, 773-830), next to the captures that invalidate it.             *)
(***************************************************************************)
RECURSIVE NewestFirst(_, _, _)
NewestFirst(st, ca, ids) ==
  IF ids = {} THEN <<>>
  ELSE LET x == CHOOSE x \in ids : \A y \in ids \ {x} : Older(ca, y, x)
       IN <<st[x]>> \o NewestFirst(st, ca, ids \ {x})

(* index('createdAt').openCursor(null, 'prev'), up to limit entries,       *)
(* storage.ts:498-521                                                      *)
getRecentEntries(d, limit) ==
  LET all == NewestFirst(local[d], createdAt[d], {id \in Ids : local[d][id] # NoEntry})
  IN SubSeq(all, 1, Min(limit, Len(all)))

(* recentEntriesCache.length > 0 && (now - cacheTimestamp) < CACHE_DURATION *)
CacheValid(at) == Len(recentEntriesCache) > 0 /\ (at - cacheTimestamp) < CACHE_DURATION

(* The entries of the Local Store whose capture has completed: the ones    *)
(* created since the start, with no capture of theirs still running.       *)
Captured ==
  {id \in Ids : /\ local[1][id] # NoEntry
                /\ createdAt[1][id] >= CACHE_DURATION
                /\ \A q \in Procs : Active(q) /\ op[q] = "msg" => locals[q].entry.id # id}

(* onInputChanged with an empty query: getRecentEntriesCached(limit) takes *)
(* the time and returns a slice of the cache when the cache is valid.      *)
OmniboxInput(p) ==
  /\ NoneDone
  /\ LowestFree({p})
  /\ op' = [op EXCEPT ![p] = "omnibox"]
  /\ flags' = Overlapped({p}, {})
  /\ IF CacheValid(now)
     THEN /\ locals' = [locals EXCEPT ![p] =
                          [now |-> now, captured |-> Captured,
                           recent |-> SubSeq(recentEntriesCache, 1,
                                             Min(MaxSuggestions, Len(recentEntriesCache))),
                           cached |-> TRUE]]
          /\ Settle(p, "ok")
     ELSE /\ locals' = [locals EXCEPT ![p] =
                          [now |-> now, captured |-> Captured, recent |-> <<>>,
                           cached |-> FALSE]]
          /\ Goto(p, "ob_fetch")
          /\ UNCHANGED result
  /\ UNCHANGED <<local, db, remote, dev, arg, lidx, pos, got, pullEnd, lastPushed, opsLeft,
                 todo, failsLeft, createdAt, settings, responses, cache, now>>

(* storageService.getRecentEntries(limit) reads the Local Store. *)
OmniboxFetch(p) ==
  /\ At(p, "omnibox", "ob_fetch")
  /\ locals' = [locals EXCEPT ![p].recent = getRecentEntries(1, MaxSuggestions)]
  /\ Goto(p, "ob_assign")
  /\ UNCHANGED <<proc0, local, remote, result, flags, failsLeft, createdAt, settings,
                 responses, cache, now>>

(* The read fails: suggest([{description: 'Error: ...'}]),                 *)
(* background.ts:719-725                                                   *)
OmniboxFetchFail(p) ==
  /\ At(p, "omnibox", "ob_fetch")
  /\ Fails
  /\ Settle(p, "failed")
  /\ UNCHANGED <<proc0, local, remote, flags, createdAt, settings, locals, responses,
                 cache, now>>

(* recentEntriesCache = <the entries read>; cacheTimestamp = now; return *)
OmniboxAssign(p) ==
  /\ At(p, "omnibox", "ob_assign")
  /\ recentEntriesCache' = locals[p].recent
  /\ cacheTimestamp' = locals[p].now
  /\ Settle(p, "ok")
  /\ UNCHANGED <<proc0, local, remote, flags, failsLeft, createdAt, settings, locals,
                 responses, now>>

(* Date.now() advances. *)
Tick ==
  /\ NoneDone
  /\ now < CACHE_DURATION + MaxTime
  /\ now' = now + 1
  /\ UNCHANGED <<local, db, remote, pc, op, dev, arg, lidx, pos, got, result, pullEnd, flags,
                 lastPushed, opsLeft, todo, failsLeft, createdAt, settings, locals,
                 responses, cache>>

CaptureRequests ==
  {Request("captureContent", [id |-> id, content |-> <<"x">>], 0, FALSE, FALSE, DefaultSettings) :
     id \in Ids}

(* The limits are off or keep one entry. *)
InitCache ==
  \E st \in HandlerStores, se \in {DefaultSettings, [autoCleanup |-> TRUE, maxEntries |-> 1]} :
    InitStoreAt(st, se, 1)

NextCache ==
  \/ \E p \in Procs : Retire(p)
  \/ \E p \in Procs, request \in CaptureRequests : HandleMessage(p, request)
  \/ \E p \in Procs : SaveSteps(p)
  \/ \E p \in Procs : OmniboxInput(p)
  \/ \E p \in Procs : OmniboxFetch(p) \/ OmniboxFetchFail(p)
  \/ \E p \in Procs : OmniboxAssign(p)
  \/ Tick

SpecCache == InitCache /\ [][NextCache]_vars

(***************************************************************************)
(* The recent-entries cache against removals: deleteEntry and clearAllData *)
(* messages, captures under the storage limits, merges, empty-query        *)
(* omnibox requests and the clock, with no call failing.                   *)
(***************************************************************************)
RemovalRequests ==
  IdRequests({"deleteEntry"}) \cup {Bare("clearAllData")} \cup CaptureRequests

(* Both entries are stored; the limits are off or keep one entry. *)
InitEvict ==
  \E se \in {DefaultSettings, [autoCleanup |-> TRUE, maxEntries |-> 1]} :
    InitStoreAt([id \in Ids |-> [id |-> id, content |-> <<>>]], se, 1)

NextEvict ==
  \/ \E p \in Procs : Retire(p)
  \/ \E p \in Procs, request \in RemovalRequests : HandleMessage(p, request)
  \/ \E p \in Procs : HandlerRun(p)
  \/ \E p \in Procs : SavePut(p) \/ SavePush(p)
  \/ \E p \in Procs : EnforceConfig(p) \/ EnforceCount(p) \/ EnforceTrim(p)
  \/ \E p \in Procs, sourceId \in Ids, targetId \in Ids : MergeEntries(p, 1, sourceId, targetId)
  \/ \E p \in Procs : MergeGetSource(p) \/ MergeGetTarget(p) \/ MergePut(p)
  \/ \E p \in Procs : MergePush(p) \/ MergeDelete(p) \/ MergeUnpush(p)
  \/ \E p \in Procs : OmniboxInput(p)
  \/ \E p \in Procs : OmniboxFetch(p)
  \/ \E p \in Procs : OmniboxAssign(p)
  \/ Tick

SpecEvict == InitEvict /\ [][NextEvict]_vars

(***************************************************************************)
(* The Sync Codec on its own: an entry is split with a chunk size, the     *)
(* chunks are brought into any order, one of them may be lost, and the     *)
(* chunks are reconstructed.                                               *)
(***************************************************************************)
ChunkSizes == 1 .. MaxChunkSize

Codec == locals[1]
codecFrame == <<local, db, remote, pc, op, dev, arg, lidx, pos, got, result, pullEnd, flags,
                lastPushed, opsLeft, todo, failsLeft, createdAt, settings, responses,
                cache, now>>

InitCodec ==
  \E entry \in Entries, size \in ChunkSizes :
    /\ InitStoreBase([id \in Ids |-> NoEntry], DefaultSettings, 0)
    /\ locals = [p \in Procs |->
                   IF p = 1
                   THEN [entry |-> entry, size |-> size, at |-> "input", chunks |-> <<>>,
                         lost |-> -1, out |-> NoEntry]
                   ELSE NoLocals]

(* const chunks = this.splitEntryIntoChunks(entry), storage.ts:289 *)
CodecSplit ==
  /\ Codec.at = "input"
  /\ locals' = [locals EXCEPT ![1].chunks = splitEntryWith(Codec.entry, Codec.size),
                              ![1].at = "split"]
  /\ UNCHANGED codecFrame

(* The chunks reach the reader in another order. *)
CodecSwap(k) ==
  /\ Codec.at \in {"split", "mixed"}
  /\ k \in 1 .. (Len(Codec.chunks) - 1)
  /\ locals' = [locals EXCEPT ![1].chunks = [Codec.chunks EXCEPT ![k] = Codec.chunks[k + 1],
                                                                 ![k + 1] = Codec.chunks[k]],
                              ![1].at = "mixed"]
  /\ UNCHANGED codecFrame

(* One chunk record is missing: if (chunkData) chunks.push(chunkData),     *)
(* storage.ts:212-214                                                      *)
CodecLose(k) ==
  /\ Codec.at \in {"split", "mixed"}
  /\ Codec.lost = -1
  /\ k \in 1 .. Len(Codec.chunks)
  /\ locals' = [locals EXCEPT ![1].chunks = SubSeq(Codec.chunks, 1, k - 1)
                                              \o SubSeq(Codec.chunks, k + 1, Len(Codec.chunks)),
                              ![1].lost = Codec.chunks[k].chunkIndex]
  /\ UNCHANGED codecFrame

(* const entry = this.reconstructEntryFromChunks(chunks), storage.ts:217 *)
CodecReconstruct ==
  /\ Codec.at \in {"split", "mixed"}
  /\ locals' = [locals EXCEPT ![1].out = reconstructEntryFromChunks(Codec.chunks),
                              ![1].at = "joined"]
  /\ UNCHANGED codecFrame

NextCodec ==
  \/ CodecSplit
  \/ \E k \in 1 .. Len(Codec.chunks) : CodecSwap(k)
  \/ \E k \in 1 .. Len(Codec.chunks) : CodecLose(k)
  \/ CodecReconstruct

SpecCodec == InitCodec /\ [][NextCodec]_vars

(***************************************************************************)
(* The merge rule on entries with all their fields (storage.ts:912-933).   *)
(* An entry is [id, url, type, title, content, createdAt, tags, summary,   *)
(* category]; texts are sequences of characters, createdAt is the text of  *)
(* a date.                                                                 *)
(***************************************************************************)
NaN == -1

(* new Date(text).getTime(): two texts of the same instant, a later one    *)
(* and a text that is no date.                                             *)
DateValue(text) ==
  CASE text = "T1" -> 1
    [] text = "T1+00:00" -> 1
    [] text = "T2" -> 2
    [] OTHER -> NaN

(* new Date(a) < new Date(b): false when either is an Invalid Date. *)
DateBefore(a, b) ==
  /\ DateValue(a) # NaN
  /\ DateValue(b) # NaN
  /\ DateValue(a) < DateValue(b)

Unique_Off(seq) == seq

(* [...new Set(seq)]: the first occurrence of each element, in order. *)
RECURSIVE Unique(_)
Unique(seq) ==
  IF seq = <<>> THEN <<>>
  ELSE LET init == Unique(SubSeq(seq, 1, Len(seq) - 1))
           last == seq[Len(seq)]
       IN IF \E k \in 1 .. Len(init) : init[k] = last THEN init ELSE Append(init, last)

(* The fields of mergedEntry but metadata. *)
mergeFields(source, target) ==
  [id |-> target.id,
   title |-> IF target.title # <<>> THEN target.title ELSE source.title,
   url |-> target.url,
   type |-> target.type,
   createdAt |-> IF DateBefore(source.createdAt, target.createdAt)
                 THEN source.createdAt ELSE target.createdAt,
   tags |-> Unique(target.tags \o source.tags),
   summary |-> IF target.summary = source.summary
               THEN target.summary
               ELSE target.summary \o <<"\n\n">> \o source.summary,
   category |-> IF target.category # "" THEN target.category ELSE source.category,
   content |-> IF KeepsTargetContent(source, target) THEN target.content ELSE source.content]

DateTexts == {"T1", "T1+00:00", "T2", "not a date"}
TagLists == {<<>>, <<"p">>, <<"p", "q">>, <<"q", "q">>}
Pages == {[url |-> "u1", type |-> "text"], [url |-> "u2", type |-> "page"]}
Bodies ==
  {[title |-> <<>>, summary |-> <<"s">>, category |-> "", content |-> <<"x">>],
   [title |-> <<"t">>, summary |-> <<"t">>, category |-> "c1", content |-> <<"y">>],
   [title |-> <<"t">>, summary |-> <<>>, category |-> "c2", content |-> <<"x", "x">>],
   [title |-> <<"u">>, summary |-> <<"s">>, category |-> "c1", content |-> <<>>]}

(* The entries the rule is applied to, under an id. *)
RuleEntries(id) ==
  {[id |-> id, url |-> pg.url, type |-> pg.type, title |-> b.title, content |-> b.content,
    createdAt |-> at, tags |-> tags, summary |-> b.summary, category |-> b.category] :
     pg \in Pages, b \in Bodies, at \in DateTexts, tags \in TagLists}

Rule == locals[1]

InitRule ==
  \E source \in RuleEntries("a"), target \in RuleEntries("b") :
    /\ InitStoreBase([id \in Ids |-> NoEntry], DefaultSettings, 0)
    /\ locals = [p \in Procs |->
                   IF p = 1
                   THEN [source |-> source, target |-> target, at |-> "read", merged |-> target]
                   ELSE NoLocals]

(* const mergedEntry: ContentEntry = {...}, storage.ts:912-954 *)
RuleMerge ==
  /\ Rule.at = "read"
  /\ locals' = [locals EXCEPT ![1].merged = mergeFields(Rule.source, Rule.target),
                              ![1].at = "merged"]
  /\ UNCHANGED codecFrame

SpecRule == InitRule /\ [][RuleMerge]_vars

(***************************************************************************)
(* SimilarityService (unnamed/part_011). A score is a fraction <<n, d>>    *)
(* with d > 0; a text is a sequence of characters; a url is                *)
(* [scheme, host, path, query].                                            *)
(***************************************************************************)
RECURSIVE GCD(_, _)
GCD(x, y) == IF y = 0 THEN x ELSE GCD(y, x % y)

Frac(n, d) == <<n \div GCD(n, d), d \div GCD(n, d)>>
FracAdd(x, y) == Frac(x[1] * y[2] + y[1] * x[2], x[2] * y[2])
FracMul(x, y) == Frac(x[1] * y[1], x[2] * y[2])
FracGE(x, y) == x[1] * y[2] >= y[1] * x[2]
FracEq(x, y) == x[1] * y[2] = y[1] * x[2]

(* text.toLowerCase(), for the capitals of the inputs *)
LowerCase(c) ==
  CASE c = "H" -> "h"
    [] c = "P" -> "p"
    [] OTHER -> c

IsSpace(c) == c \in {" ", "\t"}

(* .replace(/\s+/g, ' '): a run of whitespace becomes one space *)
RECURSIVE CollapseSpaces(_)
CollapseSpaces(text) ==
  IF text = <<>> THEN <<>>
  ELSE LET init == CollapseSpaces(SubSeq(text, 1, Len(text) - 1))
           last == text[Len(text)]
       IN IF ~IsSpace(last) THEN Append(init, last)
          ELSE IF init # <<>> /\ init[Len(init)] = " " THEN init
          ELSE Append(init, " ")

(* .trim(), of a text whose whitespace is single spaces *)
Trim(text) ==
  LET from == IF text # <<>> /\ text[1] = " " THEN 2 ELSE 1
      to == IF text # <<>> /\ text[Len(text)] = " " THEN Len(text) - 1 ELSE Len(text)
  IN SubSeq(text, from, to)

(* normalizeText, part_011:197-202 *)
normalizeText(text) ==
  Trim(CollapseSpaces([k \in 1 .. Len(text) |-> LowerCase(text[k])]))

(* One more row of the matrix of levenshteinDistance: prev is the row of   *)
(* the prefix of str2 before c, r the cells 0..j-1 of the new row.         *)
RECURSIVE LevRow(_, _, _, _)
LevRow(prev, c, str1, j) ==
  IF j = 0 THEN <<prev[1] + 1>>
  ELSE LET r == LevRow(prev, c, str1, j - 1)
       IN Append(r, IF c = str1[j] THEN prev[j]
                    ELSE Min(Min(prev[j] + 1, r[j] + 1), prev[j + 1] + 1))

RECURSIVE LevRows(_, _, _)
LevRows(str1, str2, i) ==
  IF i = 0 THEN [j \in 1 .. (Len(str1) + 1) |-> j - 1]
  ELSE LET prev == LevRows(str1, str2, i - 1)   \* matrix[i - 1], filled before matrix[i]
       IN IF Len(prev) > Len(str1) THEN LevRow(prev, str2[i], str1, Len(str1)) ELSE prev

(* levenshteinDistance, part_011:234-260 *)
levenshteinDistance(str1, str2) == LevRows(str1, str2, Len(str2))[Len(str1) + 1]

(* levenshteinSimilarity, part_011:223-229 *)
levenshteinSimilarity(text1, text2) ==
  LET maxLen == IF Len(text1) >= Len(text2) THEN Len(text1) ELSE Len(text2)
  IN IF maxLen = 0 THEN Frac(1, 1)
     ELSE Frac(maxLen - levenshteinDistance(text1, text2), maxLen)

(* text.split(/\s+/): the words of a normalised text *)
RECURSIVE Words(_, _)
Words(text, word) ==
  IF text = <<>> THEN (IF word = <<>> THEN {} ELSE {word})
  ELSE IF Head(text) = " "
       THEN (IF word = <<>> THEN {} ELSE {word}) \cup Words(Tail(text), <<>>)
       ELSE Words(Tail(text), Append(word, Head(text)))

(* jaccardSimilarity, part_011:207-218 *)
jaccardSimilarity(text1, text2) ==
  LET words1 == {w \in Words(text1, <<>>) : Len(w) > 2}
      words2 == {w \in Words(text2, <<>>) : Len(w) > 2}
  IN IF words1 = {} /\ words2 = {} THEN Frac(1, 1)
     ELSE IF words1 = {} \/ words2 = {} THEN Frac(0, 1)
     ELSE Frac(Cardinality(words1 \cap words2), Cardinality(words1 \cup words2))

(* calculateTextSimilarity, part_011:117-130 *)
calculateTextSimilarity(text1, text2) ==
  IF text1 = <<>> \/ text2 = <<>> THEN Frac(0, 1)
  ELSE LET normalized1 == normalizeText(text1)
           normalized2 == normalizeText(text2)
       IN IF Len(normalized1) < SHORT_TEXT \/ Len(normalized2) < SHORT_TEXT
          THEN levenshteinSimilarity(normalized1, normalized2)
          ELSE jaccardSimilarity(normalized1, normalized2)

(* The characters of code 32 to 126, in order (three of them by name). *)
Ascii ==
  <<" ", "!", "quote", "#", "$", "%", "&", "'", "(", ")", "*", "+", ",", "-", ".", "/",
    "0", "1", "2", "3", "4", "5", "6", "7", "8", "9", ":", ";", "<", "=", ">", "?",
    "@", "A", "B", "C", "D", "E", "F", "G", "H", "I", "J", "K", "L", "M", "N", "O",
    "P", "Q", "R", "S", "T", "U", "V", "W", "X", "Y", "Z", "[", "backslash", "]", "^", "_",
    "backtick", "a", "b", "c", "d", "e", "f", "g", "h", "i", "j", "k", "l", "m", "n", "o",
    "p", "q", "r", "s", "t", "u", "v", "w", "x", "y", "z", "{", "|", "}", "~">>

(* normalized.charCodeAt(i), part_011:107 *)
charCodeAt(c) == 31 + (CHOOSE k \in 1 .. Len(Ascii) : Ascii[k] = c)

(* hash = (hash << 5) - hash + char; hash = hash & hash, part_011:108-109:  *)
(* 31 * hash + char in 32 bits, held as its two halves of 16 bits.          *)
HashStep(hash, char) ==
  LET low == 31 * hash[2] + char
  IN <<(31 * hash[1] + low \div 65536) % 65536, low % 65536>>

(* the hash after the loop over normalized, part_011:104-110 *)
RECURSIVE HashOf(_)
HashOf(normalized) ==
  IF normalized = <<>> THEN <<0, 0>>
  ELSE HashStep(HashOf(SubSeq(normalized, 1, Len(normalized) - 1)),
                charCodeAt(normalized[Len(normalized)]))

(* generateContentHash, part_011:101-112 *)
generateContentHash(content) == HashOf(normalizeText(content))

isExactDuplicate_Never(entry1, entry2) == FALSE

(* isExactDuplicate, part_011:88-96 *)
isExactDuplicate(entry1, entry2) ==
  /\ entry1.url = entry2.url
  /\ generateContentHash(entry1.content) = generateContentHash(entry2.content)

(* new URL(url) throws for a url without a scheme *)
IsURL(url) == url.scheme # ""

(* calculateURLSimilarity, part_011:135-158 *)
calculateURLSimilarity(url1, url2) ==
  IF IsURL(url1) /\ IsURL(url2)
  THEN IF url1.host = url2.host /\ url1.path = url2.path THEN Frac(9, 10)
       ELSE IF url1.host = url2.host THEN Frac(5, 10)
       ELSE Frac(0, 1)
  ELSE IF url1 = url2 THEN Frac(1, 1) ELSE Frac(0, 1)

DataPrefix == <<"d", "a", "t", "a", ":">>
StartsWith(text, prefix) ==
  Len(text) >= Len(prefix) /\ SubSeq(text, 1, Len(prefix)) = prefix

(* calculateImageSimilarity, part_011:163-192, of entries without metadata *)
calculateImageSimilarity(entry1, entry2) ==
  LET url1 == entry1.content
      url2 == entry2.content
  IN IF url1 = url2 THEN Frac(1, 1)
     ELSE IF /\ StartsWith(url1, DataPrefix) /\ StartsWith(url2, DataPrefix)
             /\ SubSeq(url1, 1, Min(1000, Len(url1))) = SubSeq(url2, 1, Min(1000, Len(url2)))
          THEN Frac(95, 100)
     ELSE Frac(0, 1)

(* calculateSimilarity, part_011:7-50 *)
calculateSimilarity(entry1, entry2) ==
  IF isExactDuplicate(entry1, entry2) THEN Frac(1, 1)
  ELSE LET urlSimilarity == calculateURLSimilarity(entry1.url, entry2.url)
           contentSimilarity ==
             IF entry1.type # entry2.type THEN Frac(0, 1)
             ELSE IF entry1.type \in {"text", "page"}
                  THEN calculateTextSimilarity(entry1.content, entry2.content)
             ELSE IF entry1.type = "image" THEN calculateImageSimilarity(entry1, entry2)
             ELSE Frac(0, 1)
           titleSimilarity == calculateTextSimilarity(entry1.title, entry2.title)
       IN IF FracEq(urlSimilarity, Frac(1, 1)) THEN Frac(95, 100)
          ELSE FracAdd(FracAdd(FracMul(urlSimilarity, Frac(3, 10)),
                               FracMul(contentSimilarity, Frac(5, 10))),
                       FracMul(titleSimilarity, Frac(2, 10)))

(* determineMatchType, part_011:265-284 *)
determineMatchType(entry1, entry2, similarity) ==
  IF FracGE(similarity, Frac(99, 100)) THEN "exact"
  ELSE IF entry1.url = entry2.url THEN "url"
  ELSE IF FracGE(calculateTextSimilarity(entry1.content, entry2.content), Frac(8, 10))
       THEN "content"
  ELSE "near-duplicate"

(* the loop of findDuplicates, part_011:62-79 *)
RECURSIVE MatchesOf(_, _, _)
MatchesOf(newEntry, existingEntries, threshold) ==
  IF existingEntries = <<>> THEN <<>>
  ELSE LET init == MatchesOf(newEntry, SubSeq(existingEntries, 1, Len(existingEntries) - 1),
                             threshold)
           existing == existingEntries[Len(existingEntries)]
           similarity == calculateSimilarity(newEntry, existing)
       IN IF existing.id = newEntry.id THEN init
          ELSE IF FracGE(similarity, threshold)
               THEN Append(init, [entry |-> existing, similarity |-> similarity,
                                  matchType |-> determineMatchType(newEntry, existing,
                                                                   similarity)])
          ELSE init

SortBySimilarity_None(matches) == matches

(* matches.sort((a, b) => b.similarity - a.similarity), part_011:82: a     *)
(* stable sort, highest first.                                              *)
RECURSIVE SortBySimilarity(_)
SortBySimilarity(matches) ==
  IF matches = <<>> THEN <<>>
  ELSE LET init == SortBySimilarity(SubSeq(matches, 1, Len(matches) - 1))
           last == matches[Len(matches)]
           ahead == Cardinality({k \in 1 .. Len(init) :
                                   FracGE(init[k].similarity, last.similarity)})
       IN SubSeq(init, 1, ahead) \o <<last>> \o SubSeq(init, ahead + 1, Len(init))

(* findDuplicates, part_011:55-83 *)
findDuplicates(newEntry, existingEntries, threshold) ==
  SortBySimilarity(MatchesOf(newEntry, existingEntries, threshold))

(* The inputs of the similarity service. *)
HelloWorld == <<"h", "e", "l", "l", "o", " ", "w", "o", "r", "l", "d">>
HelloWorldBang == <<"h", "e", "l", "l", "o", " ", "w", "o", "r", "l", "d", "!">>
HelloWorldCaps == <<"H", "e", "l", "l", "o", " ", " ", "w", "o", "r", "l", "d">>
AlphaBetaGamma ==
  <<"a", "l", "p", "h", "a", " ", "b", "e", "t", "a", " ", "g", "a", "m", "m", "a">>
AlphaBetaDelta ==
  <<"a", "l", "p", "h", "a", " ", "b", "e", "t", "a", " ", "d", "e", "l", "t", "a">>
PageTitle == <<"P", "a", "g", "e">>
PostTitle == <<"P", "o", "s", "t">>

XA == [scheme |-> "https", host |-> "x.com", path |-> "/a", query |-> ""]
XAQuery == [scheme |-> "https", host |-> "x.com", path |-> "/a", query |-> "?v=2"]
XB == [scheme |-> "https", host |-> "x.com", path |-> "/b", query |-> ""]
YA == [scheme |-> "https", host |-> "y.com", path |-> "/a", query |-> ""]
Relative == [scheme |-> "", host |-> "", path |-> "a.html", query |-> ""]

SimEntry(id, url, type, title, content, at, tags) ==
  [id |-> id, url |-> url, type |-> type, title |-> title, content |-> content,
   createdAt |-> at, tags |-> tags, summary |-> <<>>, category |-> ""]

NewEntries ==
  {SimEntry("a", url, type, title, content, "T2", <<"q">>) :
     url \in {XA, XAQuery, Relative}, type \in {"text", "image"},
     title \in {<<>>, PageTitle},
     content \in {HelloWorld, HelloWorldBang, HelloWorldCaps, AlphaBetaGamma}}

(* The stored entries: fixed ones, and copies of the new entry under its   *)
(* own and under another id, with its title and type or with others.       *)
ExistingEntries(newEntry) ==
  {SimEntry("b", XA, "text", PageTitle, HelloWorld, "T1", <<"p">>),
   SimEntry("b", XA, "text", PostTitle, HelloWorld, "T1", <<"p">>),
   SimEntry("c", XB, "text", PageTitle, HelloWorld, "T1", <<"p">>),
   SimEntry("c", YA, "text", PostTitle, HelloWorldBang, "T1", <<"p">>),
   SimEntry("b", Relative, "text", PageTitle, AlphaBetaDelta, "T1", <<"p">>),
   SimEntry("c", XA, "image", PageTitle, HelloWorldBang, "T1", <<"p">>),
   SimEntry("a", XA, "text", PageTitle, HelloWorld, "T1", <<"p">>),
   SimEntry("b", XAQuery, "text", PostTitle, AlphaBetaDelta, "T1", <<"p">>)}
  \cup {[newEntry EXCEPT !.id = id, !.title = b.title, !.type = b.type, !.createdAt = "T1"] :
          id \in {"a", "b"},
          b \in {[title |-> newEntry.title, type |-> newEntry.type],
                 [title |-> PostTitle, type |-> "page"]}}

Thresholds == {Frac(5, 10), Frac(8, 10), Frac(1, 1)}

Sim == locals[1]

InitSimilarity ==
  \E newEntry \in NewEntries, threshold \in Thresholds :
    \E existingEntries \in {<<>>} \cup {<<x>> : x \in ExistingEntries(newEntry)}
                           \cup {<<x, y>> : x, y \in ExistingEntries(newEntry)} :
      /\ InitStoreBase([id \in Ids |-> NoEntry], DefaultSettings, 0)
      /\ locals = [p \in Procs |->
                     IF p = 1
                     THEN [newEntry |-> newEntry, existingEntries |-> existingEntries,
                           threshold |-> threshold, scored |-> FALSE, score |-> Frac(0, 1),
                           found |-> FALSE, matches |-> <<>>]
                     ELSE NoLocals]

(* calculateSimilarity(newEntry, existing) of the first stored entry *)
SimScore ==
  /\ ~Sim.scored
  /\ Sim.existingEntries # <<>>
  /\ locals' = [locals EXCEPT ![1].score = calculateSimilarity(Sim.newEntry,
                                                               Sim.existingEntries[1]),
                              ![1].scored = TRUE]
  /\ UNCHANGED codecFrame

(* findDuplicates(newEntry, existingEntries, threshold) *)
SimFind ==
  /\ ~Sim.found
  /\ locals' = [locals EXCEPT ![1].matches = findDuplicates(Sim.newEntry, Sim.existingEntries,
                                                            Sim.threshold),
                              ![1].found = TRUE]
  /\ UNCHANGED codecFrame

NextSimilarity == SimScore \/ SimFind

SpecSimilarity == InitSimilarity /\ [][NextSimilarity]_vars

(***************************************************************************)
(* The queries of the Local Store over many entries, storage.ts:440-521.   *)
(* The object store is the sequence of its entries in key order; an entry  *)
(* is [id, createdAt, title, category], its createdAt the digits of the    *)
(* text new Date().toISOString() gave it (background.ts:613), its title    *)
(* and category given by their place in the collation order.               *)
(***************************************************************************)
MaxRows == 25
MaxSeed == 4

(* new Date(createdAt).getTime() *)
getTime(text) == 10 * text[1] + text[2]

(* The order of two createdAt texts as keys of the index. *)
KeyBefore(x, y) == x[1] < y[1] \/ (x[1] = y[1] /\ x[2] < y[2])

(* a.title.localeCompare(b.title) *)
localeCompare(x, y) == x - y

(* The comparator of allEntries.sort, storage.ts:469-488 *)
Comparison(a, b, sortBy, sortOrder) ==
  LET comparison ==
        CASE sortBy = "title" -> localeCompare(a.title, b.title)
          [] sortBy = "category" -> localeCompare(a.category, b.category)
          [] OTHER -> getTime(a.createdAt) - getTime(b.createdAt)
  IN IF sortOrder = "asc" THEN comparison ELSE 0 - comparison

(* allEntries.sort(...): a stable sort *)
RECURSIVE SortEntries(_, _, _)
SortEntries(allEntries, sortBy, sortOrder) ==
  IF allEntries = <<>> THEN <<>>
  ELSE LET init == SortEntries(SubSeq(allEntries, 1, Len(allEntries) - 1), sortBy, sortOrder)
           last == allEntries[Len(allEntries)]
           ahead == Cardinality({k \in 1 .. Len(init) :
                                   Comparison(init[k], last, sortBy, sortOrder) <= 0})
       IN SubSeq(init, 1, ahead) \o <<last>> \o SubSeq(init, ahead + 1, Len(init))

PageOffset_OfNext(page, pageSize) == page * pageSize

(* const offset = (page - 1) * pageSize, storage.ts:456 *)
PageOffset(page, pageSize) == (page - 1) * pageSize

(* getEntriesPaginated, storage.ts:440-496: count and getAll in one        *)
(* transaction on the store.                                               *)
getEntriesPaginated(store, page, pageSize, sortBy, sortOrder) ==
  LET total == Len(store)
      offset == PageOffset(page, pageSize)
  IN IF offset >= total
     THEN [entries |-> <<>>, total |-> total, hasMore |-> FALSE]
     ELSE [entries |-> SubSeq(SortEntries(store, sortBy, sortOrder),
                              offset + 1, Min(offset + pageSize, total)),
           total |-> total,
           hasMore |-> offset + pageSize < total]

CursorNext(store) == store

(* index('createdAt').openCursor(null, 'prev'): the entries by descending  *)
(* createdAt key and, under one key, by descending primary key.            *)
RECURSIVE CursorPrev(_)
CursorPrev(store) ==
  IF store = <<>> THEN <<>>
  ELSE LET init == CursorPrev(SubSeq(store, 1, Len(store) - 1))
           last == store[Len(store)]
           ahead == Cardinality({k \in 1 .. Len(init) :
                                   KeyBefore(last.createdAt, init[k].createdAt)})
       IN SubSeq(init, 1, ahead) \o <<last>> \o SubSeq(init, ahead + 1, Len(init))

(* getRecentEntries, storage.ts:498-521, over the entries of store *)
getRecentEntriesOf(store, limit) ==
  LET met == CursorPrev(store)
  IN SubSeq(met, 1, Min(limit, Len(met)))

(* A store of n entries. *)
StoreOf(n, seed) ==
  [k \in 1 .. n |->
     [id |-> k,
      createdAt |-> <<(k * seed) % 3, (k + seed) % 4>>,
      title |-> (k * (seed + 1)) % 4,
      category |-> (k + 2 * seed) % 3]]

Query == locals[1]

InitQuery ==
  \E n \in {0, 1, 2, 3, 5, MaxRows}, seed \in 1 .. MaxSeed,
     pageSize \in {1, 2, 3, 10}, limit \in {0, 1, 3, 10, MaxRows + 5},
     sortBy \in {"date", "title", "category"}, sortOrder \in {"asc", "desc"} :
    /\ InitStoreBase([id \in Ids |-> NoEntry], DefaultSettings, 0)
    /\ locals = [p \in Procs |->
                   IF p = 1
                   THEN [store |-> StoreOf(n, seed), pageSize |-> pageSize,
                         sortBy |-> sortBy, sortOrder |-> sortOrder, pages |-> <<>>,
                         limit |-> limit, asked |-> FALSE, recent |-> <<>>]
                   ELSE NoLocals]

(* getEntriesPaginated of the page after the last one fetched, up to the   *)
(* first page past the end.                                                *)
QueryPage ==
  /\ Len(Query.pages) * Query.pageSize <= Len(Query.store)
  /\ locals' = [locals EXCEPT ![1].pages =
                  Append(@, getEntriesPaginated(Query.store, Len(Query.pages) + 1,
                                                Query.pageSize, Query.sortBy,
                                                Query.sortOrder))]
  /\ UNCHANGED codecFrame

(* getRecentEntries(limit) *)
QueryRecent ==
  /\ ~Query.asked
  /\ locals' = [locals EXCEPT ![1].recent = getRecentEntriesOf(Query.store, Query.limit),
                              ![1].asked = TRUE]
  /\ UNCHANGED codecFrame

NextQuery == QueryPage \/ QueryRecent

SpecQuery == InitQuery /\ [][NextQuery]_vars

(***************************************************************************)
(* A delete against pulls: device 1 starts up, saves entry a and, once the *)
(* push has completed, deletes it. A change event of the index key arrives *)
(* after the delete has settled, or its pull is running when the delete is *)
(* called, or the extension starts again after the delete. No save of a    *)
(* follows the delete. A remote call of the delete may fail.               *)
(***************************************************************************)
IndexChanged == Entry("sync", <<"index">>)

DeleteScripts ==
  { << Later("init", 1, NoArg),
       Later("save", 1, Entry("a", <<"x">>)),
       Later("delete", 1, Entry("a", <<>>)),
       Later("listen", 1, IndexChanged) >>,
    << Later("init", 1, NoArg),
       Later("save", 1, Entry("a", <<"x">>)),
       Later("listen", 1, IndexChanged),
       Anytime("delete", 1, Entry("a", <<>>)) >>,
    << Later("init", 1, NoArg),
       Later("save", 1, Entry("a", <<>>)),
       Later("save", 1, Entry("b", <<"x">>)),
       Later("delete", 1, Entry("a", <<>>)),
       Later("init", 1, NoArg) >> }

(* The state before the calls of script, of which fails remote calls fail. *)
InitScript(script, fails) ==
  /\ InitExt
  /\ local = [d \in Devices |-> [id \in Ids |-> NoEntry]]
  /\ db = [d \in Devices |-> FALSE]
  /\ syncChunks = [k \in ChunkKeySpace |-> NoChunk]
  /\ syncIndex = <<>>
  /\ pc = [p \in Procs |-> "idle"]
  /\ op = [p \in Procs |-> "none"]
  /\ dev = [p \in Procs |-> 1]
  /\ arg = [p \in Procs |-> NoArg]
  /\ lidx = [p \in Procs |-> <<>>]
  /\ pos = [p \in Procs |-> 0]
  /\ got = [p \in Procs |-> NoEntry]
  /\ result = [p \in Procs |-> "none"]
  /\ pullEnd = [p \in Procs |-> "none"]
  /\ flags = [p \in Procs |-> {}]
  /\ lastPushed = [id \in Ids |-> NoEntry]
  /\ opsLeft = 0
  /\ todo = script
  /\ failsLeft = fails

InitReappear == \E script \in DeleteScripts : InitScript(script, MaxFails)

NextReappear ==
  \/ \E p \in Procs : Retire(p)
  \/ \E p \in Procs, d \in Devices : InitOpen(p, d)
  \/ \E p \in Procs, d \in Devices, entry \in SmallEntries : SaveEntry(p, d, entry)
  \/ \E p \in Procs, d \in Devices, id \in Ids : DeleteEntry(p, d, id)
  \/ \E d \in Devices, areaName \in Areas, changes \in ChangeSets : OnChanged(d, areaName, changes)
  \/ \E p \in Procs :
       \/ PushSteps(p)
       \/ PullSteps(p)
       \/ DeleteIndexRead(p) \/ DeleteIndexReadFail(p)
       \/ DeleteRemoveChunks(p) \/ DeleteRemoveChunksFail(p)
       \/ DeleteIndexWrite(p) \/ DeleteIndexWriteFail(p)

SpecReappear == InitReappear /\ [][NextReappear]_vars

(***************************************************************************)
(* Two revisions of an entry against a pull: device 1 starts up, saves     *)
(* entry a and, once its push has completed, saves a second revision of a. *)
(* A change event of the index key arrives after the second save has       *)
(* settled, or its pull is running when the second save is called. A       *)
(* remote call of a push may fail.                                         *)
(***************************************************************************)
FirstRevision == Entry("a", <<>>)
SecondRevision == Entry("a", <<"x">>)

RevisionScripts ==
  { << Later("init", 1, NoArg),
       Later("save", 1, FirstRevision),
       Later("save", 1, SecondRevision),
       Later("listen", 1, IndexChanged) >>,
    << Later("init", 1, NoArg),
       Later("save", 1, FirstRevision),
       Later("listen", 1, IndexChanged),
       Anytime("save", 1, SecondRevision) >> }

InitStale == \E script \in RevisionScripts : InitScript(script, MaxFails)

NextStale ==
  \/ \E p \in Procs : Retire(p)
  \/ \E p \in Procs, d \in Devices : InitOpen(p, d)
  \/ \E p \in Procs, d \in Devices, entry \in SmallEntries : SaveEntry(p, d, entry)
  \/ \E d \in Devices, areaName \in Areas, changes \in ChangeSets : OnChanged(d, areaName, changes)
  \/ \E p \in Procs : PushSteps(p) \/ PushFailSteps(p) \/ PullSteps(p)

SpecStale == InitStale /\ [][NextStale]_vars

(***************************************************************************)
(* A delete seen from a second device: device 1 saves entry a, device 2    *)
(* starts up and pulls it, device 1 deletes a with every remote call       *)
(* succeeding, and device 2 receives the change event of the removal (of   *)
(* the index key, or of the chunk keys and the index key).                 *)
(***************************************************************************)
ChunksAndIndexChanged == Entry("sync", <<"chunk", "index">>)

PropagateScripts ==
  { << Later("init", 1, NoArg), Later("save", 1, entry), Later("init", 2, NoArg) >>
      \o more \o
    << Later("delete", 1, Entry("a", <<>>)), Later("listen", 2, changed) >> :
    entry \in {Entry("a", <<>>), Entry("a", <<"x", "x", "x", "x">>)},
    more \in {<<>>, << Later("save", 2, Entry("b", <<>>)) >>},
    changed \in {IndexChanged, ChunksAndIndexChanged} }

InitPropagate == \E script \in PropagateScripts : InitScript(script, 0)

NextPropagate ==
  \/ \E p \in Procs : Retire(p)
  \/ \E p \in Procs, d \in Devices : InitOpen(p, d)
  \/ \E p \in Procs, d \in Devices, entry \in Entries : SaveEntry(p, d, entry)
  \/ \E p \in Procs, d \in Devices, id \in Ids : DeleteEntry(p, d, id)
  \/ \E d \in Devices, areaName \in Areas, changes \in ChangeSets : OnChanged(d, areaName, changes)
  \/ \E p \in Procs : PushSteps(p) \/ PullSteps(p)
  \/ \E p \in Procs : DeleteIndexRead(p) \/ DeleteRemoveChunks(p) \/ DeleteIndexWrite(p)

SpecPropagate == InitPropagate /\ [][NextPropagate]_vars

(***************************************************************************)
(* getConfig and setConfig, storage.ts:670-727, on device 1 with its       *)
(* database open. The config store of IndexedDB is settings[key]; the      *)
(* replica keeps a config record under the key config_<key>, next to the   *)
(* chunk records. A call sets a key to an earlier value, then to NewValue, *)
(* possibly sets another key, and reads the key back once the sets have    *)
(* completed. A remote call may fail.                                      *)
(***************************************************************************)
SYNC_STORAGE_CONFIG_PREFIX == "config_"
ConfigKeys == {"settings", "theme"}
NoValue == "undefined"
Null == "null"
NewValue == "new"
OldValues == {"", "old"}

(* `${SYNC_STORAGE_CONFIG_PREFIX}${key}`, storage.ts:674, 720 *)
ConfigKey(key) == <<SYNC_STORAGE_CONFIG_PREFIX, key>>

ConfigArg(key, value) == [id |-> key, content |-> value]

(* request.result?.value || null, storage.ts:700 *)
OrNull(value) == IF value \in {NoValue, ""} THEN Null ELSE value

ConfigScriptsOf(key) ==
  { first \o << Later("setConfig", 1, ConfigArg(key, NewValue)) >> \o other
      \o << Later("getConfig", 1, ConfigArg(key, NoValue)),
            Later("getConfig", 1, ConfigArg(key, NoValue)) >> :
    first \in {<<>>} \cup {<< Later("setConfig", 1, ConfigArg(key, old)) >> : old \in OldValues},
    other \in {<<>>} \cup {<< Later("setConfig", 1, ConfigArg(k, "old")) >> :
                             k \in ConfigKeys \ {key}} }

ConfigScripts == UNION {ConfigScriptsOf(key) : key \in ConfigKeys}

InitConfig ==
  \E script \in ConfigScripts :
    /\ InitExtWith([key \in ConfigKeys |-> NoValue])
    /\ local = [d \in Devices |-> [id \in Ids |-> NoEntry]]
    /\ db = [d \in Devices |-> d = 1]
    /\ syncChunks = [k \in ChunkKeySpace \cup {ConfigKey(key) : key \in ConfigKeys} |->
                       IF k \in ChunkKeySpace THEN NoChunk ELSE NoValue]
    /\ syncIndex = <<>>
    /\ pc = [p \in Procs |-> "idle"]
    /\ op = [p \in Procs |-> "none"]
    /\ dev = [p \in Procs |-> 1]
    /\ arg = [p \in Procs |-> NoArg]
    /\ lidx = [p \in Procs |-> <<>>]
    /\ pos = [p \in Procs |-> 0]
    /\ got = [p \in Procs |-> NoEntry]
    /\ result = [p \in Procs |-> "none"]
    /\ pullEnd = [p \in Procs |-> "none"]
    /\ flags = [p \in Procs |-> {}]
    /\ lastPushed = [id \in Ids |-> NoEntry]
    /\ opsLeft = 0
    /\ todo = script
    /\ failsLeft = MaxFails

(* What no step of getConfig or setConfig touches. *)
configFrame == <<local, db, syncIndex, frame, lidx, pos, got, pullEnd, lastPushed, budget,
                 createdAt, responses, recentEntriesCache, cacheTimestamp, now>>

(* store.put({ key, value }) on the config store, storage.ts:707-715 *)
SetConfig(p, key, value) ==
  /\ db[1]
  /\ Begin(p, "setConfig", 1, ConfigArg(key, value), "cfg_available")
  /\ settings' = [settings EXCEPT ![key] = value]
  /\ UNCHANGED <<local, db, remote, createdAt, locals, responses,
                 recentEntriesCache, cacheTimestamp, now>>

(* this.useSyncStorage && (await this.checkSyncStorageAvailable()), 718 *)
SetAvailable(p) ==
  /\ At(p, "setConfig", "cfg_available")
  /\ Goto(p, "cfg_write")
  /\ UNCHANGED <<syncChunks, result, flags, failsLeft, settings, locals, configFrame>>

(* getBytesInUse throws: the remote write is skipped (114-121, 718). *)
SetUnavailable(p) ==
  /\ At(p, "setConfig", "cfg_available")
  /\ Fails
  /\ Settle(p, "ok")
  /\ Flag(p, {"remoteErr"})
  /\ UNCHANGED <<syncChunks, settings, locals, configFrame>>

(* chrome.storage.sync.set({ [syncKey]: value }), storage.ts:720-721 *)
SetWrite(p) ==
  /\ At(p, "setConfig", "cfg_write")
  /\ syncChunks' = [syncChunks EXCEPT ![ConfigKey(arg[p].id)] = arg[p].content]
  /\ Settle(p, "ok")
  /\ UNCHANGED <<flags, failsLeft, settings, locals, configFrame>>

(* The write throws: the error is caught and logged (722-724). *)
SetWriteFail(p) ==
  /\ At(p, "setConfig", "cfg_write")
  /\ Fails
  /\ Settle(p, "ok")
  /\ Flag(p, {"remoteErr"})
  /\ UNCHANGED <<syncChunks, settings, locals, configFrame>>

(* getConfig(key), storage.ts:670 *)
GetConfig(p, key) ==
  /\ db[1]
  /\ Begin(p, "getConfig", 1, ConfigArg(key, NoValue), "get_available")
  /\ locals' = [locals EXCEPT ![p] = [value |-> NoValue]]
  /\ UNCHANGED <<local, db, remote, createdAt, settings, responses,
                 recentEntriesCache, cacheTimestamp, now>>

(* this.useSyncStorage && (await this.checkSyncStorageAvailable()), 672 *)
GetAvailable(p) ==
  /\ At(p, "getConfig", "get_available")
  /\ Goto(p, "get_read")
  /\ UNCHANGED <<syncChunks, result, flags, failsLeft, settings, locals, configFrame>>

GetUnavailable(p) ==
  /\ At(p, "getConfig", "get_available")
  /\ Fails
  /\ Goto(p, "get_local")
  /\ Flag(p, {"remoteErr"})
  /\ UNCHANGED <<syncChunks, result, settings, locals, configFrame>>

(* chrome.storage.sync.get(syncKey) and result[syncKey] !== undefined,     *)
(* storage.ts:675-676 *)
GetRead(p) ==
  /\ At(p, "getConfig", "get_read")
  /\ LET value == syncChunks[ConfigKey(arg[p].id)]
     IN IF value # NoValue
        THEN /\ locals' = [locals EXCEPT ![p].value = value]
             /\ Goto(p, "get_cache")
        ELSE /\ Goto(p, "get_local")
             /\ UNCHANGED locals
  /\ UNCHANGED <<syncChunks, result, flags, failsLeft, settings, configFrame>>

(* The read throws: the error is caught and the fallback runs (685-687). *)
GetReadFail(p) ==
  /\ At(p, "getConfig", "get_read")
  /\ Fails
  /\ Goto(p, "get_local")
  /\ Flag(p, {"remoteErr"})
  /\ UNCHANGED <<syncChunks, result, settings, locals, configFrame>>

(* store.put({ key, value: result[syncKey] }) and return result[syncKey],  *)
(* storage.ts:678-684 *)
GetCache(p) ==
  /\ At(p, "getConfig", "get_cache")
  /\ settings' = [settings EXCEPT ![arg[p].id] = locals[p].value]
  /\ Settle(p, "ok")
  /\ UNCHANGED <<syncChunks, flags, failsLeft, locals, configFrame>>

(* The fallback to IndexedDB, storage.ts:690-701 *)
GetLocal(p) ==
  /\ At(p, "getConfig", "get_local")
  /\ locals' = [locals EXCEPT ![p].value = OrNull(settings[arg[p].id])]
  /\ Settle(p, "ok")
  /\ UNCHANGED <<syncChunks, flags, failsLeft, settings, configFrame>>

NextConfig ==
  \/ \E p \in Procs : Retire(p)
  \/ \E p \in Procs, key \in ConfigKeys, value \in OldValues \cup {NewValue} :
       SetConfig(p, key, value)
  \/ \E p \in Procs, key \in ConfigKeys : GetConfig(p, key)
  \/ \E p \in Procs :
       \/ SetAvailable(p) \/ SetUnavailable(p)
       \/ SetWrite(p) \/ SetWriteFail(p)
       \/ GetAvailable(p) \/ GetUnavailable(p)
       \/ GetRead(p) \/ GetReadFail(p)
       \/ GetCache(p)
       \/ GetLocal(p)

SpecConfig == InitConfig /\ [][NextConfig]_vars

(***************************************************************************)
(* sendNavigationMessage and sendSearchMessage, background.ts:895-946: a   *)
(* first timer, then delivery attempts that the side panel accepts or      *)
(* rejects, with a timer after each rejected attempt. Two calls may be     *)
(* under way at once; locals[p] holds the closure of call p.               *)
(***************************************************************************)
maxRetries == 5
RETRY_DELAY == 200
INITIAL_DELAY == 300

Senders == {1, 2}
NoCall == [fn |-> "none", retries |-> 0, attempts |-> 0, first |-> 0, waits |-> <<>>,
           at |-> "idle"]

InitNotify ==
  /\ InitStoreBase([id \in Ids |-> NoEntry], DefaultSettings, 0)
  /\ locals = [p \in Procs |-> IF p \in Senders THEN NoCall ELSE NoLocals]

(* let retries = 0 ... setTimeout(sendMessage, 300), background.ts:897-918 *)
SendMessageCall(p, fn) ==
  /\ locals[p].at = "idle"
  /\ locals' = [locals EXCEPT ![p] = [NoCall EXCEPT !.fn = fn, !.first = INITIAL_DELAY,
                                                    !.at = "timer"]]
  /\ UNCHANGED codecFrame

(* The timer fires: sendMessage calls chrome.runtime.sendMessage (901). *)
TimerFires(p) ==
  /\ locals[p].at = "timer"
  /\ locals' = [locals EXCEPT ![p].attempts = @ + 1, ![p].at = "sending"]
  /\ UNCHANGED codecFrame

(* The promise resolves: 'message sent successfully' (905). *)
Delivered(p) ==
  /\ locals[p].at = "sending"
  /\ locals' = [locals EXCEPT ![p].at = "sent"]
  /\ UNCHANGED codecFrame

(* catch: retries++; setTimeout(sendMessage, 200 * retries) while          *)
(* retries < maxRetries, else the error is logged (906-914).               *)
Rejected(p) ==
  /\ locals[p].at = "sending"
  /\ LET retries == locals[p].retries + 1
     IN locals' = IF retries < maxRetries
                  THEN [locals EXCEPT ![p].retries = retries,
                                      ![p].waits = Append(@, RETRY_DELAY * retries),
                                      ![p].at = "timer"]
                  ELSE [locals EXCEPT ![p].retries = retries, ![p].at = "gave_up"]
  /\ UNCHANGED codecFrame

NextNotify ==
  \/ \E p \in Senders, fn \in {"sendNavigationMessage", "sendSearchMessage"} :
       SendMessageCall(p, fn)
  \/ \E p \in Senders : TimerFires(p)
  \/ \E p \in Senders : Delivered(p)
  \/ \E p \in Senders : Rejected(p)

SpecNotify == InitNotify /\ [][NextNotify]_vars

(***************************************************************************)
(* The sizes of the records a push hands to chrome.storage.sync.set, in    *)
(* the units of the source: the chunk records of an entry whose JSON text  *)
(* has jsonLength characters (storage.ts:123-143, 290-305) and the index   *)
(* record once it references count entries of that shape (315-330).        *)
(* chrome.storage.sync measures an item by the JSON text of its value plus *)
(* the length of its key; of the characters of a chunk's data, quoted are  *)
(* quotes or backslashes, which JSON escapes with one more character.      *)
(***************************************************************************)
(* const MAX_CHUNK_SIZE = 7000 // Leave room under 8KB limit, storage.ts:14 *)
CHUNK_CHARACTERS == 7000
QUOTA_BYTES_PER_ITEM == 8192
(* const SYNC_QUOTA_BYTES = 100 * 1024, storage.ts:15 *)
SYNC_QUOTA_BYTES == 102400

RECURSIVE Digits(_)
Digits(n) == IF n < 10 THEN 1 ELSE 1 + Digits(n \div 10)

RECURSIVE Sum(_)
Sum(numbers) == IF numbers = <<>> THEN 0 ELSE Head(numbers) + Sum(Tail(numbers))

(* Math.ceil(entryJson.length / MAX_CHUNK_SIZE), storage.ts:127 *)
TotalChunks(jsonLength) == (jsonLength + CHUNK_CHARACTERS - 1) \div CHUNK_CHARACTERS

(* entryJson.substring(start, end).length, storage.ts:130-136 *)
DataLength(jsonLength, i) ==
  LET start == i * CHUNK_CHARACTERS
  IN Min(start + CHUNK_CHARACTERS, jsonLength) - start

(* `${SYNC_STORAGE_PREFIX}${entry.id}_${chunk.chunkIndex}`, storage.ts:292-294 *)
ChunkKeyLength(idLength, i) == 6 + idLength + 1 + Digits(i)

(* The item of a chunk: its key and                                        *)
(* {"id":"..","chunkIndex":i,"totalChunks":n,"data":".."}                  *)
ChunkItemBytes(idLength, i, total, dataLength, quoted) ==
  ChunkKeyLength(idLength, i)
    + 7 + idLength + 15 + Digits(i) + 15 + Digits(total) + 9
    + dataLength + Min(quoted, dataLength) + 2

(* index[entry.id] = { chunkKeys, metadata: { id, title, url, createdAt,   *)
(* category, tags, summary, type } } (storage.ts:317-329) as JSON text:    *)
(* "<id>":{"chunkKeys":["..",..],"metadata":{"id":"..","title":"..",       *)
(* "url":"..","createdAt":"..","tags":[..],"summary":"..","type":".."}}    *)
(* with category undefined; metaLength is the length of the values.        *)
IndexEntryLength(idLength, total, metaLength) ==
  idLength + 3
    + 14 + Sum([i \in 1 .. total |-> ChunkKeyLength(idLength, i - 1) + 2]) + (total - 1)
    + 14 + 7 + idLength + 11 + 9 + 15 + 10 + 13 + 10 + metaLength + 2

(* The item of the index: the key entries_index and { .. , .. }. *)
IndexItemBytes(count, idLength, total, metaLength) ==
  13 + 2 + count * IndexEntryLength(idLength, total, metaLength) + (count - 1)

Quota == locals[1]

InitQuota ==
  \E idLength \in {1, 36}, jsonLength \in {160, 500, 7000, 7001, 20000},
     quoted \in {0, 40, 2000}, metaLength \in {30, 300},
     count \in {1, 2, 20, 40, 60, 100} :
    \* the JSON text of the entry holds the values of the metadata
    /\ jsonLength >= idLength + metaLength + 89
    /\ InitStoreBase([id \in Ids |-> NoEntry], DefaultSettings, 0)
    /\ locals = [p \in Procs |->
                   IF p = 1
                   THEN [idLength |-> idLength, jsonLength |-> jsonLength, quoted |-> quoted,
                         metaLength |-> metaLength, count |-> count, at |-> "input",
                         chunkBytes |-> <<>>, indexBytes |-> 0]
                   ELSE NoLocals]

(* const chunks = this.splitEntryIntoChunks(entry) and                     *)
(* chrome.storage.sync.set(dataToSave), storage.ts:290-305 *)
QuotaChunks ==
  /\ Quota.at = "input"
  /\ LET total == TotalChunks(Quota.jsonLength)
     IN locals' = [locals EXCEPT
          ![1].chunkBytes =
            [k \in 1 .. total |->
               ChunkItemBytes(Quota.idLength, k - 1, total,
                              DataLength(Quota.jsonLength, k - 1), Quota.quoted)],
          ![1].at = "chunks"]
  /\ UNCHANGED codecFrame

(* index[entry.id] = ... and updateEntryIndex(index), storage.ts:316-330 *)
QuotaIndex ==
  /\ Quota.at = "chunks"
  /\ locals' = [locals EXCEPT
       ![1].indexBytes = IndexItemBytes(Quota.count, Quota.idLength,
                                        TotalChunks(Quota.jsonLength), Quota.metaLength),
       ![1].at = "index"]
  /\ UNCHANGED codecFrame

NextQuota == QuotaChunks \/ QuotaIndex

SpecQuota == InitQuota /\ [][NextQuota]_vars

(***************************************************************************)
(* Saves under every configuration of the storage limits: saveEntry and    *)
(* importData messages whose entries carry any createdAt.                  *)
(***************************************************************************)
LimitRequests ==
  {Request(a, [id |-> id, content |-> <<"x">>], t, FALSE, FALSE, DefaultSettings) :
     a \in {"saveEntry", "importData"}, id \in Ids, t \in 0 .. MaxTime}

(* The stored entries were created at time 1. *)
InitLimits == \E st \in HandlerStores, se \in SettingsSpace : InitStoreAt(st, se, 1)

NextLimits ==
  \/ \E p \in Procs : Retire(p)
  \/ \E p \in Procs, request \in LimitRequests : HandleMessage(p, request)
  \/ \E p \in Procs : SaveSteps(p)

SpecLimits == InitLimits /\ [][NextLimits]_vars

(***************************************************************************)
(* Properties.                                                             *)
(***************************************************************************)
Settled(p, o) == op[p] = o /\ pc[p] = "done"
Alone(p) == "overlap" \notin flags[p]
Clean(p) == "remoteErr" \notin flags[p]

(* The index record reconstructs to an entry of its id. *)
Reconstructs(rec, store) ==
  /\ Reconstructed(rec, store) \in Entries
  /\ Reconstructed(rec, store).id = rec.id

(* What the pull of p wrote: every entry of the index it read that         *)
(* reconstructs is in its device's Local Store.                            *)
PulledAll(p, index) ==
  \A k \in 1..Len(index) :
    Reconstructs(index[k], syncChunks)
      => local[dev[p]][index[k].id] = Reconstructed(index[k], syncChunks)

\* C7: a pull that ran alone, with every remote call succeeding, on a device
\* whose database is open, skipped the entries that do not reconstruct and
\* wrote every entry of the index that does.
C7_PullSkipsOnlyBadEntries ==
  \A p \in Procs :
    (IsPull(p) /\ pc[p] = "done" /\ Alone(p) /\ Clean(p) /\ db[dev[p]] /\ pullEnd[p] # "empty")
      => PulledAll(p, lidx[p])


\* C1: every saveEntry settles successfully once its Local Store write is
\* done, whatever the remote replica did (unavailable, chunk write rejected,
\* chunk verification mismatch, index write failure, index verification
\* mismatch).
C1_SaveSucceedsDespiteRemote ==
  \A p \in Procs : Settled(p, "save") => result[p] = "ok"

C1_Witness ==
  \E p \in Procs :
    /\ Settled(p, "save")
    /\ "indexMismatch" \in flags[p]
    /\ result[p] = "ok"

\* C2: saveEntry settles without having awaited any call of the remote
\* replica.
C2_SaveReturnsBeforeRemote ==
  \A p \in Procs : Settled(p, "save") => "awaited" \notin flags[p]

\* C3: a push writes the index only after it has read back every chunk key of
\* its revision as present (write chunks, verify chunks, update index, verify
\* index), and a push whose chunk verification failed has not written the
\* index.
C3_IndexAfterVerifiedChunks ==
  \A p \in Procs :
    op[p] = "save" =>
      /\ (pc[p] \in {"push_verify", "push_index_read", "push_index_write", "push_index_verify"}
            => "awaited" \in flags[p])
      /\ (pc[p] \in {"push_index_read", "push_index_write", "push_index_verify"}
            => "verified" \in flags[p])
      /\ ("wroteIndex" \in flags[p] => "verified" \in flags[p])
      /\ ("synced" \in flags[p] => "wroteIndex" \in flags[p])
      /\ ("chunkMismatch" \in flags[p] => "wroteIndex" \notin flags[p])

C3_Witness ==
  \E p \in Procs :
    /\ Settled(p, "save")
    /\ "chunkMismatch" \in flags[p]
    /\ "wroteIndex" \notin flags[p]

\* C4: at every point of every push, also of a re-push with another number of
\* chunks, each entry the Remote Index references reconstructs to a complete
\* revision of that entry.
C4_IndexedEntriesStayComplete ==
  \A k \in 1..Len(syncIndex) : Reconstructs(syncIndex[k], syncChunks)

\* C5: when no operation is in progress, every entry id of the Remote Index
\* has all its chunk keys present and they reconstruct to an entry of that id.
C5_QuiescentIndexValid ==
  Quiescent =>
    \A k \in 1..Len(syncIndex) :
      /\ \A key \in KeySet(syncIndex[k].chunkKeys) : syncChunks[key] # NoChunk
      /\ Reconstructs(syncIndex[k], syncChunks)

\* C6: once the pushes of two devices that saved different revisions of an
\* entry id have completed, the replica reconstructs the id to the revision
\* whose index write came last.
C6_LastIndexWriterWins ==
  Quiescent =>
    \A id \in Ids :
      (/\ IndexHas(syncIndex, id)
       /\ \E c, d \in Devices :
            /\ local[c][id] # NoEntry
            /\ local[d][id] # NoEntry
            /\ local[c][id] # local[d][id])
        => Reconstructed(syncIndex[IndexPos(syncIndex, id)], syncChunks) = lastPushed[id]

C9_ChangeEventPulls ==
  \A p \in Procs :
    op[p] = "listen" =>
      /\ arg[p].id = "sync"
      /\ Touches(arg[p].content, "index") \/ Touches(arg[p].content, "chunk")
      /\ (pc[p] = "done" /\ Alone(p) /\ Clean(p)) => PulledAll(p, syncIndex)

\* C10: deleteEntry removes the entry from the Local Store before any remote
\* step, settles successfully whatever the remote outcome, and when it ran
\* alone with every remote call succeeding the Remote Index has no record of
\* the id and none of the chunk keys it listed is left.
C10_DeleteLocalThenBestEffort ==
  \A p \in Procs :
    op[p] = "delete" =>
      /\ (Alone(p) => local[dev[p]][arg[p].id] = NoEntry)
      /\ (pc[p] = "done" => result[p] = "ok")
      /\ (pc[p] = "done" /\ Alone(p) /\ Clean(p))
           => /\ ~IndexHas(syncIndex, arg[p].id)
              /\ IndexHas(lidx[p], arg[p].id)
                   => \A key \in KeySet(lidx[p][IndexPos(lidx[p], arg[p].id)].chunkKeys) :
                        syncChunks[key] = NoChunk

C10_Witness ==
  \E p \in Procs :
    /\ Settled(p, "delete")
    /\ Alone(p)
    /\ Clean(p)
    /\ "listed" \in flags[p]
    /\ "wroteIndex" \in flags[p]

\* C11: a replication attempt that failed with a transient remote failure is
\* retried (at most MaxFails failures happen, fewer than five attempts), so
\* once no operation is running or pending any more, every entry saved into a
\* Local Store is in the Remote Index.
C11_TransientFailureRetried ==
  (\A p \in Procs : pc[p] \in {"idle", "off"}) =>
    \A d \in Devices, id \in Ids :
      local[d][id] # NoEntry => IndexHas(syncIndex, id)

\* C12: a mergeEntries of two different ids that ran alone leaves no partial
\* state: either it succeeded, the composite is stored under the target id
\* and the source entry is gone, or it reported failure and the Local Store
\* still holds the unmodified target and the source.
C12_MergeAllOrNothing ==
  \A p \in Procs :
    (Settled(p, "merge") /\ Alone(p) /\ locals[p].sourceId # locals[p].targetId) =>
      LET st == local[dev[p]]
          was == locals[p].before[1]
      IN IF result[p] = "ok"
         THEN /\ st[locals[p].targetId] = mergedEntry(was[locals[p].sourceId], was[locals[p].targetId])
              /\ st[locals[p].sourceId] = NoEntry
         ELSE /\ st[locals[p].targetId] = was[locals[p].targetId]
              /\ st[locals[p].sourceId] = was[locals[p].sourceId]

C14_AbsentIdIsNotFound ==
  \A p \in Procs :
    (/\ Settled(p, "msg")
     /\ locals[p].request.action \in {"getEntry", "deleteEntry", "mergeEntries"}
     /\ locals[p].absent
     /\ "threw" \notin flags[p])
      => /\ Len(responses[p]) = 1
         /\ ~responses[p][1].success
         /\ responses[p][1].error = "Entry not found"

\* C20: a handler that has finished, whatever its action (an unknown one, one
\* whose operation threw), called sendResponse exactly once, with a boolean
\* success and, when success is false, an error.
C20_RespondsExactlyOnce ==
  \A p \in Procs :
    op[p] = "msg" =>
      /\ Len(responses[p]) <= 1
      /\ pc[p] = "done" =>
           /\ Len(responses[p]) = 1
           /\ responses[p][1].success \in BOOLEAN
           /\ ~responses[p][1].success => responses[p][1].error # "none"
      /\ pc[p] # "done" => Len(responses[p]) = 0

C20_Witness ==
  \E p, q \in Procs :
    /\ Settled(p, "msg")
    /\ "threw" \in flags[p]
    /\ Len(responses[p]) = 1
    /\ ~responses[p][1].success
    /\ op[q] = "msg"
    /\ pc[q] = "idle" \/ locals[q].request.action \in UnknownActions

(* The save of process p has completed with success. *)
Saved(p) ==
  /\ Settled(p, "msg")
  /\ locals[p].request.action \in SaveActions
  /\ result[p] = "ok"

\* C15: once saveEntry(e) has completed, getEntry(e.id) returns e unchanged,
\* for every entry, every store state and every configuration.
C15_SavedEntryIsRead ==
  \A p \in Procs :
    (Saved(p) /\ Alone(p)) => getEntry(1, locals[p].entry.id) = locals[p].entry

(* The entries the Local Store held once the save of p had put its entry   *)
(* and holds no more.                                                      *)
Removed(p) ==
  {id \in Ids : /\ id = locals[p].entry.id \/ locals[p].before[1][id] # NoEntry
                /\ local[1][id] = NoEntry}
Kept == {id \in Ids : local[1][id] # NoEntry}

(* createdAt of the entries once the save of p had put its entry. *)
PutCreatedAt(p) == [locals[p].before[2] EXCEPT ![locals[p].entry.id] = locals[p].createdAt]

\* C19: a completed saveEntry has deleted nothing unless autoCleanup is
\* enabled and maxEntries is set; with both, the Local Store holds at most
\* maxEntries entries once the save has completed, and the entries removed
\* are the ones with the smallest createdAt.
C19_LimitsKeepNewest ==
  \A p \in Procs :
    Saved(p) =>
      IF settings.autoCleanup /\ settings.maxEntries # 0
      THEN /\ getTotalCount(1) <= settings.maxEntries
           /\ Alone(p) =>
                /\ \A x \in Removed(p), y \in Kept : ~Older(PutCreatedAt(p), y, x)
                /\ Removed(p) # {} => getTotalCount(1) = settings.maxEntries
      ELSE Alone(p) => Removed(p) = {}

(* The serialised entry of the codec run. *)
CodecJson == JSONstringify(Codec.entry)

\* C16: for every entry e and chunk size c, split(e, c) yields ceil(length/c)
\* chunks with indices 0..totalChunks-1 in order, each of at most c tokens and
\* each carrying the same totalChunks, and reconstruct of the complete chunks,
\* in whatever order, is e.
C16_SplitReconstructRoundTrip ==
  /\ Codec.at = "split" /\ Codec.lost = -1 =>
       /\ Len(Codec.chunks) = CeilDiv(Len(CodecJson), Codec.size)
       /\ \A k \in 1 .. Len(Codec.chunks) :
            /\ Codec.chunks[k].chunkIndex = k - 1
            /\ Codec.chunks[k].totalChunks = Len(Codec.chunks)
            /\ Len(Codec.chunks[k].data) <= Codec.size
            /\ Len(Codec.chunks[k].data) >= 1
  /\ Codec.at = "joined" /\ Codec.lost = -1 => Codec.out = Codec.entry

C16_Witness ==
  /\ Codec.at = "joined"
  /\ Codec.lost = -1
  /\ Len(CodecJson) = 3 * Codec.size + 1
  /\ Codec.chunks[1].chunkIndex = 3
  /\ Codec.chunks[4].chunkIndex = 1
  /\ Codec.out = Codec.entry

\* C17: reconstruct of a multi-chunk set from which one chunk (the first, a
\* middle one or the last) was removed reports null, never an entry.
C17_MissingChunkIsNull ==
  (/\ Codec.at = "joined"
   /\ Codec.lost # -1
   /\ CeilDiv(Len(CodecJson), Codec.size) >= 2)
    => Codec.out = NoEntry

C17_Witness ==
  /\ Codec.at = "joined"
  /\ Codec.lost = 1
  /\ CeilDiv(Len(CodecJson), Codec.size) = 3
  /\ Codec.chunks[1].chunkIndex = 2
  /\ Codec.out = NoEntry

(* The ids of the entries of a list. *)
IdsOf(entries) == {entries[k].id : k \in 1 .. Len(entries)}

\* C18: when a capture has completed the recent-entries cache is empty, and
\* an empty-query omnibox request that starts after captures have completed
\* is answered with recent entries that include the captured entries,
\* whatever lookups were in flight during the captures.
C18_CaptureInvalidatesCache ==
  /\ \A p \in Procs :
       (Saved(p) /\ locals[p].request.action = "captureContent")
         => recentEntriesCache = <<>>
  /\ \A p \in Procs :
       (Settled(p, "omnibox") /\ result[p] = "ok")
         => locals[p].captured \subseteq IdsOf(locals[p].recent)

(* The command set of the spec, by the action names of the messages. *)
EnumeratedCommands ==
  {"saveEntry", "getEntry", "getEntries", "getEntriesPaginated", "getRecentEntries",
   "searchEntries", "deleteEntry", "exportData", "importData", "clearAllData",
   "getSettings", "updateSettings", "findDuplicates", "mergeEntries"}

\* C21: a message whose action is one of the enumerated commands is never
\* answered with the unknown-action failure, and a mergeEntries message that
\* names an existing entry is answered with success.
C21_CommandsAreDispatched ==
  \A p \in Procs :
    (/\ Settled(p, "msg")
     /\ locals[p].request.action \in EnumeratedCommands
     /\ "threw" \notin flags[p])
      => /\ responses[p][1].error # "Unknown action"
         /\ (locals[p].request.action = "mergeEntries" /\ ~locals[p].absent)
              => responses[p][1].success

\* C22: a capture request whose content or title is missing or empty is
\* answered with a failed result, and no entry of it is written to the Local
\* Store or to the remote replica.
C22_InvalidCaptureRejected ==
  \A p \in Procs :
    (/\ Settled(p, "msg")
     /\ "title" \in DOMAIN locals[p].request
     /\ \/ locals[p].request.content \in {"missing", "empty"}
        \/ locals[p].request.title \in {"missing", "empty"})
      => /\ ~responses[p][1].success
         /\ Alone(p) => /\ local[1][locals[p].entry.id] = NoEntry
                        /\ ~IndexHas(syncIndex, locals[p].entry.id)

(* The elements of a list. *)
Elems(seq) == {seq[k] : k \in 1 .. Len(seq)}

\* C23: the merged entry's tags contain every tag of the source and every tag
\* of the target, with no duplicates, and its createdAt is the earlier of the
\* two createdAt values (dates both), the target's when they are equal.
C23_MergeTagsAndDate ==
  Rule.at = "merged" =>
    LET a == Rule.source
        b == Rule.target
        m == Rule.merged
    IN /\ Elems(a.tags) \cup Elems(b.tags) \subseteq Elems(m.tags)
       /\ \A j, k \in 1 .. Len(m.tags) : m.tags[j] = m.tags[k] => j = k
       /\ (DateValue(a.createdAt) # NaN /\ DateValue(b.createdAt) # NaN) =>
            /\ m.createdAt \in {a.createdAt, b.createdAt}
            /\ DateValue(m.createdAt) = Min(DateValue(a.createdAt), DateValue(b.createdAt))
            /\ DateValue(a.createdAt) = DateValue(b.createdAt) => m.createdAt = b.createdAt

C23_Witness ==
  /\ Rule.at = "merged"
  /\ Rule.source.tags = <<"q", "q">>
  /\ Rule.target.tags = <<"p", "q">>
  /\ Rule.source.createdAt = "T1"
  /\ Rule.target.createdAt = "T2"
  /\ Rule.merged.createdAt = "T1"
  /\ Rule.merged.tags = <<"p", "q">>

\* C24: the merged entry has the target's id, url and type; its content is
\* the longer content, the target's on equal length; its category is the
\* target's unless that is empty, then the source's; its summary is the
\* target's when the summaries are equal, otherwise the target's followed by
\* the source's.
C24_MergeFields ==
  Rule.at = "merged" =>
    LET a == Rule.source
        b == Rule.target
        m == Rule.merged
    IN /\ m.id = b.id /\ m.url = b.url /\ m.type = b.type
       /\ m.content \in {a.content, b.content}
       /\ Len(m.content) >= Len(a.content) /\ Len(m.content) >= Len(b.content)
       /\ Len(a.content) = Len(b.content) => m.content = b.content
       /\ m.category = (IF b.category = "" THEN a.category ELSE b.category)
       /\ IF a.summary = b.summary
          THEN m.summary = b.summary
          ELSE /\ Len(m.summary) >= Len(b.summary) + Len(a.summary)
               /\ SubSeq(m.summary, 1, Len(b.summary)) = b.summary
               /\ SubSeq(m.summary, Len(m.summary) - Len(a.summary) + 1, Len(m.summary))
                    = a.summary

C24_Witness ==
  /\ Rule.at = "merged"
  /\ Rule.source.content = <<"y">>
  /\ Rule.target.content = <<"x">>
  /\ Rule.target.category = ""
  /\ Rule.merged.category = "c1"
  /\ Rule.merged.content = <<"x">>
  /\ Rule.merged.summary = <<"s", "\n\n", "t">>

(* The stored entries findDuplicates is to report: those of another id     *)
(* than the new entry whose score reaches the threshold.                   *)
Qualifying ==
  {k \in 1 .. Len(Sim.existingEntries) :
     /\ Sim.existingEntries[k].id # Sim.newEntry.id
     /\ FracGE(calculateSimilarity(Sim.newEntry, Sim.existingEntries[k]), Sim.threshold)}

(* The label of a reported entry of score similarity. *)
LabelOf(existing, similarity) ==
  IF FracGE(similarity, Frac(99, 100)) THEN "exact"
  ELSE IF existing.url = Sim.newEntry.url THEN "url"
  ELSE IF FracGE(calculateTextSimilarity(Sim.newEntry.content, existing.content), Frac(8, 10))
       THEN "content"
  ELSE "near-duplicate"

(* C25: findDuplicates(newEntry, candidates, threshold) returns exactly    *)
(* the candidates of another id than newEntry whose score is at least the  *)
(* threshold, each as often as it qualifies, by non-increasing similarity, *)
(* each labelled exact (score >= 0.99), else url (equal urls), else        *)
(* content (content similarity >= 0.8), else near-duplicate.               *)
C25_FindDuplicatesContract ==
  Sim.found =>
    LET matches == Sim.matches
        reported == {Sim.existingEntries[k] : k \in Qualifying}
    IN /\ Len(matches) = Cardinality(Qualifying)
       /\ \A e \in reported :
            Cardinality({j \in 1 .. Len(matches) : matches[j].entry = e})
              = Cardinality({k \in Qualifying : Sim.existingEntries[k] = e})
       /\ \A j \in 1 .. Len(matches) :
            /\ matches[j].entry \in reported
            /\ matches[j].similarity = calculateSimilarity(Sim.newEntry, matches[j].entry)
            /\ matches[j].matchType = LabelOf(matches[j].entry, matches[j].similarity)
       /\ \A i, j \in 1 .. Len(matches) :
            i < j => FracGE(matches[i].similarity, matches[j].similarity)

(* Two entries are reported, the second stored one first. *)
C25_Witness ==
  /\ Sim.found
  /\ Len(Sim.existingEntries) = 2
  /\ Len(Sim.matches) = 2
  /\ Sim.matches[1].entry = Sim.existingEntries[2]
  /\ Sim.matches[2].entry = Sim.existingEntries[1]
  /\ ~FracEq(Sim.matches[1].similarity, Sim.matches[2].similarity)
  /\ Sim.matches[2].matchType \in {"content", "near-duplicate", "url"}

(* findDuplicates was given one stored entry, of the url and the content   *)
(* of the new entry.                                                       *)
CloneGiven ==
  /\ Sim.found
  /\ Len(Sim.existingEntries) = 1
  /\ Sim.existingEntries[1].url = Sim.newEntry.url
  /\ Sim.existingEntries[1].content = Sim.newEntry.content

OneExactMatch ==
  /\ Len(Sim.matches) = 1
  /\ Sim.matches[1].entry = Sim.existingEntries[1]
  /\ Sim.matches[1].similarity = Frac(1, 1)
  /\ Sim.matches[1].matchType = "exact"

(* C26 as stated: findDuplicates(e, [c]) for a clone c of e with the same  *)
(* url and content returns exactly one match, of similarity 1.0 and type   *)
(* exact, whatever the other fields of e and c.                            *)
C26_CloneIsExactMatch == CloneGiven => OneExactMatch

(* C26, amended: findDuplicates(e, [c]) for a clone c of e with the same   *)
(* url and content and an id other than e's returns exactly one match, of  *)
(* similarity 1.0 and type exact, whatever the titles and types.           *)
C26_CloneOfOtherIdIsExactMatch ==
  (CloneGiven /\ Sim.existingEntries[1].id # Sim.newEntry.id) => OneExactMatch

(* A clone of another id, title and type was reported as exact. *)
C26_Witness ==
  /\ CloneGiven
  /\ Sim.existingEntries[1].id # Sim.newEntry.id
  /\ Sim.existingEntries[1].title # Sim.newEntry.title
  /\ Sim.existingEntries[1].type # Sim.newEntry.type
  /\ OneExactMatch

(* calculateSimilarity was applied to two entries whose urls parse to the  *)
(* same hostname and path and whose contents differ.                       *)
SamePageOtherContent ==
  /\ Sim.scored
  /\ IsURL(Sim.newEntry.url) /\ IsURL(Sim.existingEntries[1].url)
  /\ Sim.newEntry.url.host = Sim.existingEntries[1].url.host
  /\ Sim.newEntry.url.path = Sim.existingEntries[1].url.path
  /\ Sim.newEntry.content # Sim.existingEntries[1].content

(* C27: for two entries whose urls have the same hostname and path and     *)
(* whose contents differ, calculateSimilarity returns 0.95, whatever the   *)
(* content and title similarity.                                           *)
C27_SamePageScores95 == SamePageOtherContent => Sim.score = Frac(95, 100)

(* findDuplicates(B, [A], 0.8) was applied for A at https://x.com/a with   *)
(* content 'hello world' created at T1 and B at the same url with content  *)
(* 'hello world!' created at T2.                                           *)
HelloPairGiven ==
  /\ Sim.found
  /\ Sim.threshold = Frac(8, 10)
  /\ Sim.newEntry.url = XA /\ Sim.newEntry.content = HelloWorldBang
  /\ Sim.newEntry.createdAt = "T2"
  /\ Len(Sim.existingEntries) = 1
  /\ Sim.existingEntries[1].id # Sim.newEntry.id
  /\ Sim.existingEntries[1].url = XA /\ Sim.existingEntries[1].content = HelloWorld
  /\ Sim.existingEntries[1].createdAt = "T1"

(* C28: for such A and B, findDuplicates(B, [A], 0.8) returns a match of   *)
(* similarity at least 0.9 and type url or content, and the merge of A     *)
(* and B has createdAt T1, the content 'hello world!' and the tags of      *)
(* both.                                                                   *)
C28_HelloPairIsFoundAndMerged ==
  HelloPairGiven =>
    LET merged == mergeFields(Sim.existingEntries[1], Sim.newEntry)
    IN /\ \E j \in 1 .. Len(Sim.matches) :
            /\ Sim.matches[j].entry = Sim.existingEntries[1]
            /\ FracGE(Sim.matches[j].similarity, Frac(9, 10))
            /\ Sim.matches[j].matchType \in {"url", "content"}
       /\ merged.createdAt = "T1"
       /\ merged.content = HelloWorldBang
       /\ Elems(merged.tags) = Elems(Sim.existingEntries[1].tags) \cup Elems(Sim.newEntry.tags)

(* C29: getRecentEntries(n) returns min(n, total) entries of the Local     *)
(* Store, each once, ordered by createdAt descending, and no entry left    *)
(* out has a greater createdAt than a returned one.                        *)
C29_RecentAreNewest ==
  Query.asked =>
    LET recent == Query.recent
        total == Len(Query.store)
        ids == {recent[j].id : j \in 1 .. Len(recent)}
    IN /\ Len(recent) = Min(Query.limit, total)
       /\ Cardinality(ids) = Len(recent)
       /\ \A j \in 1 .. Len(recent) : recent[j] \in Elems(Query.store)
       /\ \A i, j \in 1 .. Len(recent) :
            i < j => getTime(recent[i].createdAt) >= getTime(recent[j].createdAt)
       /\ \A k \in 1 .. total : \A j \in 1 .. Len(recent) :
            Query.store[k].id \notin ids
              => getTime(Query.store[k].createdAt) <= getTime(recent[j].createdAt)

(* Three of five entries were returned, not in key order. *)
C29_Witness ==
  /\ Query.asked
  /\ Len(Query.store) = 5
  /\ Len(Query.recent) = 3
  /\ Query.recent[1].id < Query.recent[2].id
  /\ Query.recent[3].id < Query.recent[2].id
  /\ getTime(Query.recent[1].createdAt) > getTime(Query.recent[3].createdAt)

(* The key of an entry under sortBy. *)
SortKey(entry, sortBy) ==
  CASE sortBy = "title" -> entry.title
    [] sortBy = "category" -> entry.category
    [] OTHER -> getTime(entry.createdAt)

(* Entry a may stand before entry b in the chosen order. *)
InOrder(a, b) ==
  IF Query.sortOrder = "asc"
  THEN SortKey(a, Query.sortBy) <= SortKey(b, Query.sortBy)
  ELSE SortKey(a, Query.sortBy) >= SortKey(b, Query.sortBy)

(* The entries of pages 1 to i, one page after the other. *)
RECURSIVE PagesUpTo(_)
PagesUpTo(i) == IF i = 0 THEN <<>> ELSE PagesUpTo(i - 1) \o Query.pages[i].entries

(* C30: page i of getEntriesPaginated holds the entries at places          *)
(* (i-1)*pageSize to i*pageSize - 1 of all entries ordered by the chosen   *)
(* key and direction (the pages up to i are in order, repeat no entry and  *)
(* leave out only entries that may stand after theirs), total is the       *)
(* entry count, hasMore holds exactly when i*pageSize < total; over 25     *)
(* entries with pageSize 10, page 2 has 10 entries and hasMore, page 3 has *)
(* 5 and no hasMore; the pages up to ceil(total/pageSize) hold every entry *)
(* exactly once.                                                           *)
C30_PagesAreSlices ==
  \A i \in 1 .. Len(Query.pages) :
    LET res == Query.pages[i]
        total == Len(Query.store)
        pageSize == Query.pageSize
        sofar == PagesUpTo(i)
        ids == {sofar[j].id : j \in 1 .. Len(sofar)}
    IN /\ res.total = total
       /\ res.hasMore <=> i * pageSize < total
       /\ Len(sofar) = Min(i * pageSize, total)
       /\ Len(res.entries) = Len(sofar) - Min((i - 1) * pageSize, total)
       /\ Cardinality(ids) = Len(sofar)
       /\ \A j \in 1 .. Len(sofar) : sofar[j] \in Elems(Query.store)
       /\ \A j, k \in 1 .. Len(sofar) : j < k => InOrder(sofar[j], sofar[k])
       /\ \A k \in 1 .. total : \A j \in 1 .. Len(sofar) :
            Query.store[k].id \notin ids => InOrder(sofar[j], Query.store[k])
       /\ i * pageSize >= total => ids = {Query.store[k].id : k \in 1 .. total}
       /\ (total = 25 /\ pageSize = 10 /\ i = 2) => (Len(res.entries) = 10 /\ res.hasMore)
       /\ (total = 25 /\ pageSize = 10 /\ i = 3) => (Len(res.entries) = 5 /\ ~res.hasMore)

(* Page 3 of 25 entries by 10 was fetched: 5 entries, no more to come. *)
C30_Witness ==
  /\ Len(Query.store) = 25
  /\ Query.pageSize = 10
  /\ Len(Query.pages) = 3
  /\ Len(Query.pages[2].entries) = 10 /\ Query.pages[2].hasMore
  /\ Len(Query.pages[3].entries) = 5 /\ ~Query.pages[3].hasMore
  /\ Query.pages[1].entries[1].id # 1

(* The deleteEntry of the script has reported success: it is settled, or   *)
(* it was called and has left its process.                                 *)
DeleteReported ==
  \/ \E p \in Procs : Settled(p, "delete") /\ result[p] = "ok"
  \/ /\ \A k \in 1 .. Len(todo) : todo[k].call.op # "delete"
     /\ \A p \in Procs : op[p] # "delete"

(* C31: once deleteEntry(a) has reported success and a is not saved again, *)
(* a is absent from the device's Local Store, also when the remote removal *)
(* failed or the replica was unavailable, and when a pull was running      *)
(* during the delete.                                                      *)
C31_DeletedStaysDeleted == DeleteReported => local[1]["a"] = NoEntry

(* The second save of the script was called. *)
SecondSaved ==
  \A k \in 1 .. Len(todo) : todo[k].call # [op |-> "save", dev |-> 1, arg |-> SecondRevision]

(* C32: a pull never replaces a Local Store entry with an older remote     *)
(* revision: from the latest save of a on, the Local Store holds that      *)
(* revision, also when its push failed or the replica was unavailable and  *)
(* a pull ran later.                                                       *)
C32_PullKeepsLatestSave == SecondSaved => local[1]["a"] = SecondRevision

(* C33: once the overlapping pushes of two different entry ids have both   *)
(* completed, both ids have a record in the Remote Index, whatever the     *)
(* order of the index reads and index writes of the two pushes.            *)
C33_OverlappingPushesBothIndexed ==
  (Quiescent /\ \A id \in Ids : lastPushed[id] # NoEntry)
    => \A id \in Ids : IndexHas(syncIndex, id)

(* The records the index holds for id: one or none. *)
RecordsOf(index, id) == {index[k] : k \in {j \in 1 .. Len(index) : index[j].id = id}}

(* p takes a step of its push. *)
PushStepOf(p) ==
  /\ op[p] = "save"
  /\ pc[p] \in {"push_chunks", "push_verify", "push_index_read",
                "push_index_write", "push_index_verify"}
  /\ pc'[p] # pc[p]

(* C34: every step of a push of entry e leaves the Remote Index records of *)
(* every other entry unchanged, also when the index read of the push       *)
(* failed.                                                                 *)
C34_PushLeavesOtherRecords ==
  [][\A p \in Procs :
       PushStepOf(p) =>
         \A id \in Ids \ {arg[p].id} :
           RecordsOf(syncIndex', id) = RecordsOf(syncIndex, id)]_vars

(* C35: after device 1 deleted entry a with its remote removal succeeding, *)
(* and device 2 has processed the change notification of the removal, a is *)
(* absent from the Local Store of device 2.                                *)
C35_DeleteReachesOtherDevice ==
  (todo = <<>> /\ Quiescent) => local[2]["a"] = NoEntry

(* C36: after a successful mergeEntries(sourceId, targetId) on existing    *)
(* ids that ran alone, the Local Store holds under targetId the composite  *)
(* the call returned, also when sourceId equals targetId.                  *)
C36_MergedEntryIsStored ==
  \A p \in Procs :
    (Settled(p, "merge") /\ result[p] = "ok" /\ Alone(p)) =>
      local[dev[p]][locals[p].targetId] = mergedEntry(locals[p].source, locals[p].target)

(* C37: a getConfig(k) issued after setConfig(k, v) has completed returns  *)
(* v, also when the remote write of setConfig failed while the replica is  *)
(* readable and holds an earlier value of k.                               *)
C37_GetReturnsLastSet ==
  \A p \in Procs : Settled(p, "getConfig") => locals[p].value = NewValue

(* C38: the recent-entries list an empty-query omnibox request is served   *)
(* from the cache contains no entry whose delete, merge as source, clear   *)
(* or auto-cleanup completed before the request started: with no message   *)
(* or merge in progress, every listed entry is in the Local Store.         *)
C38_CacheListsStoredEntries ==
  \A p \in Procs :
    (/\ Settled(p, "omnibox")
     /\ result[p] = "ok"
     /\ locals[p].cached
     /\ \A q \in Procs : ~Active(q))
      => \A id \in IdsOf(locals[p].recent) : local[1][id] # NoEntry

(* C39: sendNavigationMessage and sendSearchMessage make at most 5         *)
(* delivery attempts, make none after a successful one, and wait between   *)
(* failed attempts with exponential backoff: 200 ms after the first failed *)
(* attempt and twice the previous delay after each further one.            *)
C39_FiveAttemptsDoublingDelay ==
  \A p \in Senders :
    /\ locals[p].attempts <= 5
    /\ locals[p].at = "sent" => locals[p].attempts = locals[p].retries + 1
    /\ \A k \in 1 .. Len(locals[p].waits) : locals[p].waits[k] = 200 * 2 ^ (k - 1)

(* The bytes the replica holds once the entries of the index are pushed. *)
QuotaBytesInUse == Quota.count * Sum(Quota.chunkBytes) + Quota.indexBytes

(* C40: every record written to the remote replica, each chunk record and  *)
(* the Remote Index record, stays within the per-item ceiling of 8KB, for  *)
(* any number of stored entries that the replica's total quota admits.     *)
C40_RecordsWithinItemCeiling ==
  (Quota.at = "index" /\ QuotaBytesInUse <= SYNC_QUOTA_BYTES) =>
    /\ \A k \in 1 .. Len(Quota.chunkBytes) : Quota.chunkBytes[k] <= QUOTA_BYTES_PER_ITEM
    /\ Quota.indexBytes <= QUOTA_BYTES_PER_ITEM

====
